---- MODULE Spec2Model ----
(***************************************************************************)
(* BundleBlitz: workspace ingestion, diagnostics, bundle synthesis and     *)
(* preview synthesis.                                                      *)
(*                                                                         *)
(* src/unnamed/part_000 holds two versions of the application component.   *)
(* The component BundleBlitz (lines 789-1541, the one the router mounts)   *)
(* is modelled under the source's names; definitions taken from the        *)
(* earlier component App (lines 1-787) carry the prefix App_.              *)
(*                                                                         *)
(* Text is a sequence of atoms.  Every atom stands for the literal         *)
(* substring it spells; a text stands for the concatenation of its atoms.  *)
(* The atoms are chosen so that a text has one spelling only, and so that  *)
(* every regular expression of the source matches on atom boundaries.      *)
(***************************************************************************)
EXTENDS Integers, Sequences, FiniteSets, TLC

VARIABLES
    mounted,             \* the mount effect (restore) has run
    files,               \* useState<FileEntry[]>
    bundledCode,         \* useState<string>
    diagnostics,         \* useState<Diagnostic[]>
    isProcessing,        \* useState(false)
    bundleType,          \* useState<'JS' | 'HTML'>
    enableTranspilation, \* useState(true)
    lsCode,              \* localStorage[STORAGE_KEY_CODE]
    lsFiles,             \* localStorage[STORAGE_KEY_FILES]
    ingests,             \* handleFilesSelected calls suspended at an await
    builds,              \* handleBundle calls suspended at an await
    events,              \* number of user events so far
    aiAnalysis,          \* useState<string>('')
    lintIssues,          \* useState<LintIssue[]>([])
    discoveredComponents, \* useState<ComponentMetadata[]>([])
    activeAiTab,         \* useState<'analysis' | 'lint' | 'discover'>
    isAiLoading,         \* useState(false)
    isLintLoading,       \* useState(false)
    isDiscovering,       \* useState(false)
    aiCalls,             \* handleAi... calls suspended at their await
    pathname,            \* location.pathname
    previewUrl,          \* useState<string | null>(null)
    objectUrls,          \* the object URLs created and not revoked
    cleanup,             \* the URL the cleanup of the preview effect will revoke
    enableFormatting,    \* useState(false) of the earlier App (part_000:106)
    tcase,               \* input of the function under examination
    tres                 \* its result

aiVars == <<aiAnalysis, lintIssues, discoveredComponents, activeAiTab, isAiLoading,
            isLintLoading, isDiscovering, aiCalls>>

urlVars == <<previewUrl, objectUrls, cleanup>>

previewVars == <<pathname, urlVars>>

vars == <<mounted, files, bundledCode, diagnostics, isProcessing, bundleType,
          enableTranspilation, lsCode, lsFiles, ingests, builds, events, aiVars,
          previewVars, enableFormatting, tcase, tres>>

appVars == <<mounted, files, bundledCode, diagnostics, isProcessing, bundleType,
             enableTranspilation, lsCode, lsFiles, ingests, builds, events, aiVars,
             previewVars, enableFormatting>>

(***************************************************************************)
(* Bounds of the model.                                                    *)
(***************************************************************************)
\* the user events (drops, clicks) of one behaviour
MaxEvents == 2

(***************************************************************************)
(* Generic helpers on sequences.                                           *)
(***************************************************************************)
Min(a, b) == IF a < b THEN a ELSE b

RemoveAt(s, i) == SubSeq(s, 1, i - 1) \o SubSeq(s, i + 1, Len(s))

\* Array.prototype.join: the elements of ss separated by sep
RECURSIVE Join(_, _)
Join(ss, sep) ==
    IF ss = <<>> THEN <<>>
    ELSE IF Len(ss) = 1 THEN Head(ss)
    ELSE Head(ss) \o sep \o Join(Tail(ss), sep)

\* s has t as a contiguous subsequence starting at i
MatchAt(s, t, i) ==
    /\ i >= 1
    /\ i + Len(t) - 1 <= Len(s)
    /\ SubSeq(s, i, i + Len(t) - 1) = t

\* String.prototype.includes on texts
Includes(s, t) == \E i \in 1..(Len(s) + 1) : MatchAt(s, t, i)

(***************************************************************************)
(* Letter case.  The atoms with capital letters and their lower-case form. *)
(***************************************************************************)
toLowerCase(a) ==
    CASE a = "JS" -> "js"
      [] a = "JSON" -> "json"
      [] a = "CSS" -> "css"
      [] a = "HTML" -> "html"
      [] a = "MD" -> "md"
      [] a = "CJS" -> "cjs"
      [] a = "SASS" -> "sass"
      [] a = "A" -> "a"
      [] a = "<HEAD" -> "<head"
      [] a = "</HEAD>" -> "</head>"
      [] a = "<BODY" -> "<body"
      [] a = "</BODY>" -> "</body>"
      [] a = "<HTML" -> "<html"
      [] a = "<TITLE" -> "<title"
      [] a = "<!doctype html" -> "<!doctype html"
      [] a = "<!DOCTYPE html" -> "<!doctype html"
      [] a = "</SCRIPT>" -> "</script>"
      [] a = "</Script>" -> "</script>"
      [] OTHER -> a

LowerText(s) == [i \in 1..Len(s) |-> toLowerCase(s[i])]

toUpperCase(a) ==
    CASE a = "js" -> "JS"
      [] a = "json" -> "JSON"
      [] a = "css" -> "CSS"
      [] a = "html" -> "HTML"
      [] a = "md" -> "MD"
      [] a = "cjs" -> "CJS"
      [] a = "mjs" -> "MJS"
      [] a = "sass" -> "SASS"
      [] a = "a" -> "A"
      [] OTHER -> a

UpperText(s) == [i \in 1..Len(s) |-> toUpperCase(s[i])]

(***************************************************************************)
(* File names.  fileName.split('.').pop()?.toLowerCase()                   *)
(***************************************************************************)
LastDot(name) ==
    IF \E i \in 1..Len(name) : name[i] = "."
    THEN CHOOSE i \in 1..Len(name) :
            /\ name[i] = "."
            /\ \A j \in (i + 1)..Len(name) : name[j] # "."
    ELSE 0

\* the part after the last '.', or the whole name when it has no '.'
extOf(name) == LowerText(SubSeq(name, LastDot(name) + 1, Len(name)))

(***************************************************************************)
(* getFileTypeInfo (part_000:822-842): the icon and the label of a file    *)
(* name (the colours go with the icon and are left out).  split('.') of a  *)
(* string has at least one part, so ext is never undefined; it is empty    *)
(* when the name ends with '.' or is empty.                                *)
(***************************************************************************)
getFileTypeInfo(fileName) ==
    LET ext == extOf(fileName) IN
    IF ext \in {<<"js">>, <<"jsx">>, <<"ts">>, <<"tsx">>, <<"mjs">>}
    THEN [Icon |-> "FileCode2", label |-> <<"JavaScript">>]
    ELSE IF ext \in {<<"css">>, <<"scss">>, <<"less">>, <<"sass">>}
    THEN [Icon |-> "Paintbrush", label |-> <<"Style">>]
    ELSE IF ext \in {<<"html">>, <<"htm">>}
    THEN [Icon |-> "Globe", label |-> <<"HTML">>]
    ELSE IF ext = <<"json">> THEN [Icon |-> "FileJson", label |-> <<"JSON Config">>]
    ELSE IF ext = <<"md">> THEN [Icon |-> "BookOpen", label |-> <<"Markdown Doc">>]
    ELSE IF ext = <<"txt">> THEN [Icon |-> "StickyNote", label |-> <<"Plain Text">>]
    ELSE IF ext = <<"csv">> THEN [Icon |-> "FileText", label |-> <<"CSV Data">>]
    ELSE [Icon |-> "FileGeneric",
          label |-> IF ext = <<>> THEN <<"FILE">> ELSE UpperText(ext)]

(***************************************************************************)
(* isBinaryFile (part_000:844-856).  A file's bytes are the bytes of the   *)
(* atoms of its content: "^@" is the byte 0x00, "^A" the byte 0x01, the    *)
(* white-space atoms are 0x09, 0x0A and 0x20, and every other atom is made *)
(* of printable characters (byte 120 stands for any of them: the detector  *)
(* only asks whether a byte is 0, below 7, or between 14 and 31).          *)
(***************************************************************************)
SampleLimit == 8192

bytesOf(a) ==
    CASE a = "^@" -> <<0>>
      [] a = "^A" -> <<1>>
      [] a = "\t" -> <<9>>
      [] a = "\n" -> <<10>>
      [] a = " " -> <<32>>
      [] OTHER -> [i \in 1..Len(a) |-> 120]

RECURSIVE arrayBuffer(_)
arrayBuffer(content) ==
    IF content = <<>> THEN <<>>
    ELSE bytesOf(Head(content)) \o arrayBuffer(Tail(content))

\* a detector that counts the byte 7 among the non-printable ones
nonPrintable_through7(byte) == byte <= 7 \/ (byte > 13 /\ byte < 32)

nonPrintable(byte) == byte < 7 \/ (byte > 13 /\ byte < 32)

\* a detector without the return on the first zero byte
isBinary_ratioOnly(buffer) ==
    LET bytes == SubSeq(buffer, 1, Min(Len(buffer), SampleLimit))
        nonPrintableCount == Cardinality({i \in 1..Len(bytes) : nonPrintable(bytes[i])})
    IN  10 * nonPrintableCount > Len(bytes)

\* nonPrintableCount / bytes.length > 0.1 is decided on integers: the quotient of
\* two integers below 2^13 is never within one rounding step of 0.1 unless it is
\* exactly one tenth, and 0/0 is NaN, which is not greater than 0.1.
isBinary(buffer) ==
    LET bytes == SubSeq(buffer, 1, Min(Len(buffer), SampleLimit))
        nonPrintableCount == Cardinality({i \in 1..Len(bytes) : nonPrintable(bytes[i])})
    IN  \/ \E i \in 1..Len(bytes) : bytes[i] = 0
        \/ 10 * nonPrintableCount > Len(bytes)

isBinaryFile(file) == isBinary(arrayBuffer(file.content))

(***************************************************************************)
(* JSON.parse on the atoms { } [ ] 1 null "" "k":1 and white space.  The   *)
(* result is what Object.keys and Array.isArray need of the value: its     *)
(* kind and its number of own enumerable keys.                             *)
(***************************************************************************)
isJsonSpace(a) == a \in {" ", "\n", "\t"}

RECURSIVE skipSpace(_, _)
skipSpace(s, i) ==
    IF i <= Len(s) /\ isJsonSpace(s[i]) THEN skipSpace(s, i + 1) ELSE i

RECURSIVE skipDigits(_, _)
skipDigits(s, i) ==
    IF i <= Len(s) /\ s[i] = "1" THEN skipDigits(s, i + 1) ELSE i

ParseFail == [ok |-> FALSE, next |-> 0, kind |-> "none", size |-> 0]

RECURSIVE parseValue(_, _)
parseValue(s, i) ==
    IF i > Len(s) THEN ParseFail
    ELSE CASE s[i] = "1" ->
                [ok |-> TRUE, next |-> skipDigits(s, i), kind |-> "number", size |-> 0]
           [] s[i] = "null" ->
                [ok |-> TRUE, next |-> i + 1, kind |-> "null", size |-> 0]
           [] s[i] = "\"\"" ->
                [ok |-> TRUE, next |-> i + 1, kind |-> "string", size |-> 0]
           [] s[i] = "{" ->
                LET j == skipSpace(s, i + 1) IN
                IF j <= Len(s) /\ s[j] = "}"
                THEN [ok |-> TRUE, next |-> j + 1, kind |-> "object", size |-> 0]
                ELSE IF j <= Len(s) /\ s[j] = "\"k\":1"
                THEN LET k == skipSpace(s, j + 1) IN
                     IF k <= Len(s) /\ s[k] = "}"
                     THEN [ok |-> TRUE, next |-> k + 1, kind |-> "object", size |-> 1]
                     ELSE ParseFail
                ELSE ParseFail
           [] s[i] = "[" ->
                LET j == skipSpace(s, i + 1) IN
                IF j <= Len(s) /\ s[j] = "]"
                THEN [ok |-> TRUE, next |-> j + 1, kind |-> "array", size |-> 0]
                ELSE LET v == parseValue(s, j)
                         k == skipSpace(s, v.next)
                     IN  IF v.ok /\ k <= Len(s) /\ s[k] = "]"
                         THEN [ok |-> TRUE, next |-> k + 1, kind |-> "array", size |-> 1]
                         ELSE ParseFail
           [] OTHER -> ParseFail

\* JSON.parse(text): ok is FALSE when it throws a SyntaxError
JSONparse(text) ==
    LET v == parseValue(text, skipSpace(text, 1)) IN
    IF v.ok /\ skipSpace(text, v.next) = Len(text) + 1 THEN v ELSE ParseFail

(***************************************************************************)
(* The validator of handleFilesSelected (part_000:1047-1069): the          *)
(* diagnostics it appends for one file, in order.                          *)
(***************************************************************************)
isBlank(text) == \A i \in 1..Len(text) : text[i] \in {" ", "\n", "\t"}

Diag(type, tag, name) == [type |-> type, message |-> <<tag, name>>]

\* a validator without the note about an empty object
validate_noNote(name, text) ==
    IF isBlank(text) THEN <<Diag("warning", "fileEmpty", name)>>
    ELSE IF extOf(name) = <<"json">> /\ ~JSONparse(text).ok
    THEN <<Diag("error", "invalidJson", name)>>
    ELSE <<>>

validate(name, text) ==
    LET ext == extOf(name)
        parsed == JSONparse(text)
    IN
    IF isBlank(text) THEN
        <<Diag("warning",
               IF ext = <<"txt">> THEN "txtBlank"
               ELSE IF ext = <<"md">> THEN "mdNoContent"
               ELSE IF ext = <<"json">> THEN "jsonEmpty"
               ELSE "fileEmpty", name)>>
    ELSE IF ext = <<"json">> THEN
        IF ~parsed.ok THEN <<Diag("error", "invalidJson", name)>>
        \* Object.keys(null) throws a TypeError inside the same try block
        ELSE IF parsed.kind = "null" THEN <<Diag("error", "invalidJson", name)>>
        ELSE IF parsed.size = 0 /\ parsed.kind # "array"
             THEN <<Diag("info", "emptyObject", name)>>
             ELSE <<>>
    ELSE IF ext = <<"md">> THEN
        IF ~Includes(text, <<"#">>) /\ ~Includes(text, <<"- ">>) /\ ~Includes(text, <<"* ">>)
        THEN <<Diag("info", "mdNoFormatting", name)>>
        ELSE <<>>
    ELSE <<>>

(***************************************************************************)
(* Math.random().toString(36).substr(2, 9) (part_000:972, 1072).  The      *)
(* Nothing compares the value drawn with the ids in use.  Which value it   *)
(* is matters only through whether it repeats one of them, so the least    *)
(* unused number stands for every value that does not.  Two draws of nine  *)
(* base-36 digits agree with a chance of about 36^-9: the specifications   *)
(* leave repeats out, except where RepeatedDraws selects them.             *)
(***************************************************************************)
freshId(used) == CHOOSE n \in 1..(Cardinality(used) + 1) : n \notin used

RepeatedDraws == <<"Math.random repeats">>

randomId(used) == {freshId(used)} \cup (IF tcase = RepeatedDraws THEN used ELSE {})

idsOf(s) == {s[i].id : i \in 1..Len(s)}

\* A log that takes its newest entry first: setDiagnostics(prev => [{...}, ...prev])
RECURSIVE addDiagnostics_newestFirst(_, _)
addDiagnostics_newestFirst(log, ds) ==
    IF ds = <<>> THEN {log}
    ELSE UNION {addDiagnostics_newestFirst(
                    <<[id |-> id, type |-> Head(ds).type,
                       message |-> Head(ds).message]>> \o log,
                    Tail(ds)) : id \in randomId(idsOf(log))}

\* setDiagnostics(prev => [...prev, {id, type, message, timestamp}]), once per element
\* of ds; the result is the set of logs the draws of the ids can produce
RECURSIVE addDiagnostics(_, _)
addDiagnostics(log, ds) ==
    IF ds = <<>> THEN {log}
    ELSE UNION {addDiagnostics(
                    Append(log, [id |-> id, type |-> Head(ds).type,
                                 message |-> Head(ds).message]),
                    Tail(ds)) : id \in randomId(idsOf(log))}

(***************************************************************************)
(* The files a drop can hold.  read says where reading the file fails:     *)
(* "ok", "buffer" (file.arrayBuffer() rejects) or "text" (file.text()      *)
(* rejects).                                                               *)
(***************************************************************************)
RawFile(name, content, read) == [name |-> name, content |-> content, read |-> read]

fJsonObj == RawFile(<<"a", ".", "json">>, <<"{", "}">>, "ok")
fJsonBad == RawFile(<<"b", ".", "json">>, <<"{">>, "ok")
fScript == RawFile(<<"m", ".", "js">>, <<"x">>, "ok")
fStyle == RawFile(<<"s", ".", "css">>, <<"*", "/">>, "ok")
fBinary == RawFile(<<"i", ".", "png">>, <<"^@", "x">>, "ok")
fNoBuffer == RawFile(<<"u", ".", "txt">>, <<"x">>, "buffer")
fNoText == RawFile(<<"v", ".", "txt">>, <<"x">>, "text")

\* the drops of the model: single files, a pair of good files, and pairs in which
\* a file is skipped or cannot be read after an earlier file was validated
Drops ==
    { <<fJsonObj>>, <<fScript>>, <<fJsonObj, fScript>>, <<fBinary, fStyle>>,
      <<fJsonBad, fNoBuffer>>, <<fJsonBad, fNoText>> }

(***************************************************************************)
(* State after construction: the useState initial values (part_000:951-    *)
(* 968) and whatever an earlier session left in localStorage.              *)
(***************************************************************************)
FileEntry(id, f) ==
    [id |-> id, name |-> f.name, size |-> Len(arrayBuffer(f.content)),
     content |-> f.content]

\* values localStorage can hold under STORAGE_KEY_FILES: nothing, text that is not
\* JSON, JSON that is not an array, or a stringified FileEntry[]
StoredFiles ==
    { [kind |-> "absent", value |-> <<>>],
      [kind |-> "invalid", value |-> <<>>],
      [kind |-> "nonArray", value |-> <<>>],
      [kind |-> "array", value |-> <<FileEntry(1, fScript)>>] }

\* values under STORAGE_KEY_CODE: nothing, or a bundle text
StoredCode ==
    { [kind |-> "absent", value |-> <<>>],
      [kind |-> "text", value |-> <<"// --- ", "m", ".", "js", " ---", "\n", "x", "\n">>] }

\* what an earlier session can have left under the two keys
StoredSessions ==
    {<<c, f>> \in StoredCode \X StoredFiles :
        f.kind \in {"invalid", "nonArray"} => c.kind = (IF f.kind = "invalid" THEN "text" ELSE "absent")}

NoCase == <<>>

\* previewUrl before the first preview: null
NoUrl == 0

\* the useState initial values of part_000:957-968, no AI call under way and no
\* object URL created
PageInit ==
    /\ aiAnalysis = <<>>
    /\ lintIssues = <<>>
    /\ discoveredComponents = <<>>
    /\ activeAiTab = "analysis"
    /\ isAiLoading = FALSE
    /\ isLintLoading = FALSE
    /\ isDiscovering = FALSE
    /\ aiCalls = <<>>
    /\ previewUrl = NoUrl
    /\ objectUrls = {}
    /\ cleanup = NoUrl
    /\ enableFormatting = FALSE

\* the state of the component and of localStorage when the page is opened
StateInit ==
    /\ mounted = FALSE
    /\ files = <<>>
    /\ bundledCode = <<>>
    /\ diagnostics = <<>>
    /\ isProcessing = FALSE
    /\ bundleType = "JS"
    /\ enableTranspilation = TRUE
    /\ \E session \in StoredSessions : lsCode = session[1] /\ lsFiles = session[2]
    /\ ingests = <<>>
    /\ builds = <<>>
    /\ events = 0
    /\ PageInit

\* The page is opened at the route "/", which redirects to "/editor"
\* (part_000:1300), unless a specification says otherwise.
AppInit == StateInit /\ pathname = "/editor"

Init ==
    /\ AppInit
    /\ tcase = NoCase
    /\ tres = NoCase

(***************************************************************************)
(* The restore effect (part_000:979-989).                                  *)
(***************************************************************************)
\* localStorage.getItem(key) is truthy: the key is present and not the empty string
truthy(item) == item.kind # "absent" /\ ~(item.kind = "text" /\ item.value = <<>>)

restoredFiles(savedFiles, prev) ==
    IF truthy(savedFiles) /\ savedFiles.kind = "array" THEN savedFiles.value ELSE prev

restoredCode(savedCode, prev) ==
    IF truthy(savedCode) THEN savedCode.value ELSE prev

Mount ==
    /\ ~mounted
    /\ mounted' = TRUE
    /\ files' = restoredFiles(lsFiles, files)
    /\ bundledCode' = restoredCode(lsCode, bundledCode)
    /\ IF pathname # "/preview" THEN UNCHANGED urlVars
       ELSE LET last == IF truthy(lsFiles) /\ lsFiles.kind = "array"
                        THEN previewUrl + 2 ELSE previewUrl + 1
            IN  previewUrl' = last /\ objectUrls' = {last} /\ cleanup' = last
    /\ UNCHANGED <<diagnostics, isProcessing, bundleType, enableTranspilation,
                   lsCode, lsFiles, ingests, builds, events, tcase, tres, aiVars,
                   pathname, enableFormatting>>

(***************************************************************************)
(* The preview effect (part_000:991-999), with the dependencies files and  *)
(* location.pathname.  When one of them has changed, React runs the        *)
(* cleanup of the last run, which revokes the URL that run created, and    *)
(* then the effect: on the route "/preview" it creates an object URL for   *)
(* the preview document and stores it in previewUrl.  URLs are numbered    *)
(* in the order of their creation; previewUrl holds the last one created.  *)
(***************************************************************************)
\* an effect that returns no cleanup: no URL is ever revoked
PreviewEffect_noCleanup(path) ==
    LET url == previewUrl + 1 IN
    IF path = "/preview"
    THEN /\ objectUrls' = objectUrls \cup {url}
         /\ previewUrl' = url
         /\ cleanup' = url
    ELSE UNCHANGED urlVars

PreviewEffect(path) ==
    LET url == previewUrl + 1 IN
    IF path = "/preview"
    THEN /\ objectUrls' = (objectUrls \ {cleanup}) \cup {url}
         /\ previewUrl' = url
         /\ cleanup' = url
    ELSE /\ objectUrls' = objectUrls \ {cleanup}
         /\ cleanup' = NoUrl
         /\ UNCHANGED previewUrl

(***************************************************************************)
(* constructPreview (part_000:858-947).                                    *)
(*                                                                         *)
(* The atoms of markup: a tag atom spells a tag from its '<' on; the atoms *)
(* of GtAtoms end with '>' and no atom has a '>' before its last           *)
(* character, so [^>]* runs up to the end of the first atom of GtAtoms.    *)
(* No atom has '<' after its first character, so a pattern that starts     *)
(* with '<' matches at the start of an atom only.                          *)
(***************************************************************************)
GtAtoms ==
    { ">", "<!DOCTYPE html>", "<!doctype html>", "<html>", "<HTML>",
      "<html lang=\"en\">", "<head>", "<HEAD>", "<header>", "<body>", "<BODY>",
      "<title>", "</title>", "<meta charset=\"UTF-8\">",
      "<meta name=\"viewport\" content=\"width=device-width, initial-scale=1.0\">",
      "</head>", "</HEAD>", "</body>", "</BODY>", "</html>", "<style>", "</style>",
      "<script type=\"module\">", "</script>", "</SCRIPT>", "</Script>",
      "<\\/script>", "<div id=\"root\">", "</div>", "<p>" }

endsGt(a) == a \in GtAtoms

\* the atoms in which /<!DOCTYPE html/i, /<html/i, /<head/i, /<body/i, /<title/i match
DocTypeMatch == {"<!DOCTYPE html", "<!doctype html", "<!DOCTYPE html>", "<!doctype html>"}
HtmlTagMatch == {"<html", "<HTML", "<html>", "<HTML>", "<html lang=\"en\">"}
HeadTagMatch == {"<head", "<HEAD", "<head>", "<HEAD>", "<header>"}
BodyTagMatch == {"<body", "<BODY", "<body>", "<BODY>"}
TitleTagMatch == {"<title", "<title>"}
\* the atoms in which /<meta[^>]*charset/i and /<meta[^>]*viewport/i match (a meta
\* tag is one atom, and no other atom spells "<meta", "charset" or "viewport")
MetaCharsetMatch == {"<meta charset=\"UTF-8\">"}
MetaViewportMatch ==
    {"<meta name=\"viewport\" content=\"width=device-width, initial-scale=1.0\">"}
\* '</head>' and '</body>' in any letter case
HeadEndMatch == {"</head>", "</HEAD>"}
BodyEndMatch == {"</body>", "</BODY>"}

\* RegExp.prototype.test of a pattern that matches inside one atom, given as the
\* set M of the atoms it matches in
test(s, M) == \E i \in 1..Len(s) : s[i] \in M

\* index of the first atom of s in M, 0 when there is none
firstIdx(s, M) ==
    IF test(s, M)
    THEN CHOOSE i \in 1..Len(s) : s[i] \in M /\ \A j \in 1..(i - 1) : s[j] \notin M
    ELSE 0

\* the match of /<tag[^>]*>/i in s, as the indices of its first and last atom:
\* from the first tag atom to the first atom at or after it that ends with '>';
\* when no '>' follows the first tag atom none follows a later one either
tagMatch(s, M) ==
    LET i == firstIdx(s, M)
        ends == IF i = 0 THEN {} ELSE {j \in i..Len(s) : endsGt(s[j])}
    IN  IF ends = {} THEN [found |-> FALSE, from |-> 0, to |-> 0]
        ELSE [found |-> TRUE, from |-> i,
              to |-> CHOOSE j \in ends : \A k \in ends : j <= k]

\* s.replace(/<tag[^>]*>/i, (m) => `${m}${after}`)
insertAfterTag(s, M, after) ==
    LET m == tagMatch(s, M) IN
    IF m.found THEN SubSeq(s, 1, m.to) \o after \o SubSeq(s, m.to + 1, Len(s)) ELSE s

\* s.replace(/<tag[^>]*>/i, (m) => `${before}${m}`)
insertBeforeTag(s, M, before) ==
    LET m == tagMatch(s, M) IN
    IF m.found THEN SubSeq(s, 1, m.from - 1) \o before \o SubSeq(s, m.from, Len(s))
    ELSE s

\* GetSubstitution: what a replacement given as a string stands for.  "$$" is a
\* '$', "$&" the match, "$`" the text before the match, "$'" the text after it
RECURSIVE getSubstitution(_, _, _, _)
getSubstitution(repl, matched, pre, post) ==
    IF repl = <<>> THEN <<>>
    ELSE (CASE Head(repl) = "$$" -> <<"$">>
            [] Head(repl) = "$&" -> <<matched>>
            [] Head(repl) = "$`" -> pre
            [] Head(repl) = "$'" -> post
            [] OTHER -> <<Head(repl)>>)
         \o getSubstitution(Tail(repl), matched, pre, post)

\* s.replace(/<\/tag>/i, repl) with repl a string
replaceFirst(s, M, repl) ==
    LET i == firstIdx(s, M) IN
    IF i = 0 THEN s
    ELSE LET pre == SubSeq(s, 1, i - 1)
             post == SubSeq(s, i + 1, Len(s))
         IN  pre \o getSubstitution(repl, s[i], pre, post) \o post

\* scripts.replace(/<\/script>/g, '<\\/script>')
escapeScriptEnd(s) ==
    [i \in 1..Len(s) |-> IF s[i] = "</script>" THEN "<\\/script>" ELSE s[i]]

\* /\.(e1|e2|...)$/i.test(name)
hasSuffix(name, exts) ==
    /\ Len(name) >= 2
    /\ name[Len(name) - 1] = "."
    /\ toLowerCase(name[Len(name)]) \in exts

isPreviewMarkup(f) == hasSuffix(f.name, {"html", "htm"})
isPreviewStyle(f) == hasSuffix(f.name, {"css", "scss", "less"})
isPreviewScript(f) == hasSuffix(f.name, {"js", "ts", "jsx", "tsx", "mjs"})

MetaCharset == "<meta charset=\"UTF-8\">"
MetaViewport == "<meta name=\"viewport\" content=\"width=device-width, initial-scale=1.0\">"
TitleElement == <<"<title>", "BundleBlitz Preview", "</title>">>

HeadChildren ==
    <<"\n  ", MetaCharset, "\n  ", MetaViewport, "\n  ">> \o TitleElement \o <<"\n">>

\* the literal of part_000:911-922, which has no '<', '>' or '$' in it
baseStyles == "\n    :root { ... }\n    body { margin: 0; padding: 0; }\n  "

documentShell(htmlContent) ==
    <<"<!DOCTYPE html>", "\n", "<html lang=\"en\">", "\n", "<head>">> \o HeadChildren
    \o <<"</head>", "\n", "<body>", "\n  ">> \o htmlContent
    \o <<"\n", "</body>", "\n", "</html>">>

structured(htmlContent) ==
    LET hasDocType == test(htmlContent, DocTypeMatch)
        hasHtmlTag == test(htmlContent, HtmlTagMatch)
        hasHeadTag == test(htmlContent, HeadTagMatch)
        hasTitleTag == test(htmlContent, TitleTagMatch)
        withCharset ==
            IF ~test(htmlContent, MetaCharsetMatch)
            THEN insertAfterTag(htmlContent, HeadTagMatch, <<"\n  ", MetaCharset>>)
            ELSE htmlContent
        withViewport ==
            IF ~test(withCharset, MetaViewportMatch)
            THEN insertAfterTag(withCharset, HeadTagMatch, <<"\n  ", MetaViewport>>)
            ELSE withCharset
        withTitle ==
            IF ~hasTitleTag
            THEN insertAfterTag(withViewport, HeadTagMatch, <<"\n  ">> \o TitleElement)
            ELSE withViewport
    IN  IF ~hasDocType /\ ~hasHtmlTag THEN documentShell(htmlContent)
        ELSE IF ~hasHeadTag
        THEN insertAfterTag(htmlContent, HtmlTagMatch,
                            <<"\n", "<head>">> \o HeadChildren \o <<"</head>">>)
        ELSE withTitle

styleBlockOf(cssFiles) ==
    LET userStyles ==
            Join([i \in 1..Len(cssFiles) |->
                    <<"/* --- ">> \o cssFiles[i].name \o <<" --- */", "\n">>
                    \o cssFiles[i].content], <<"\n">>)
    IN  <<"<style>", "\n", baseStyles, "\n">> \o userStyles \o <<"\n", "</style>">>

scriptBlockOf(jsFiles) ==
    LET scripts ==
            Join([i \in 1..Len(jsFiles) |->
                    <<"// --- ">> \o jsFiles[i].name \o <<" ---", "\n">>
                    \o jsFiles[i].content], <<"\n">>)
    IN  <<"<script type=\"module\">", "\n">> \o escapeScriptEnd(scripts)
        \o <<"\n", "</script>">>

constructPreview(fs) ==
    LET htmlFiles == SelectSeq(fs, isPreviewMarkup)
        cssFiles == SelectSeq(fs, isPreviewStyle)
        jsFiles == SelectSeq(fs, isPreviewScript)
        fileContent == IF htmlFiles = <<>> THEN <<>> ELSE htmlFiles[1].content
        htmlContent == IF fileContent = <<>>
                       THEN <<"<div id=\"root\">", "</div>">> ELSE fileContent
        html1 == structured(htmlContent)
        styleBlock == styleBlockOf(cssFiles)
        html2 == IF test(html1, HeadEndMatch)
                 THEN replaceFirst(html1, HeadEndMatch, styleBlock \o <<"\n", "</head>">>)
                 ELSE insertBeforeTag(html1, BodyTagMatch,
                                      <<"<head>">> \o styleBlock \o <<"</head>", "\n">>)
        scriptBlock == scriptBlockOf(jsFiles)
    IN  IF jsFiles = <<>> THEN html2
        ELSE IF test(html2, BodyEndMatch)
        THEN replaceFirst(html2, BodyEndMatch, scriptBlock \o <<"\n", "</body>">>)
        ELSE html2 \o <<"\n">> \o scriptBlock

(***************************************************************************)
(* handleFilesSelected (part_000:1034-1093).  The call runs to its first   *)
(* await, and then from one await to the next; between two awaits any      *)
(* other event of the page can run.  A suspended call is a record: the     *)
(* selected files, the index of the file of the current iteration, the     *)
(* await it waits at, and its locals newFileEntries and binaryCount.       *)
(***************************************************************************)
IngestCall(sel) ==
    [sel |-> sel, i |-> 1, at |-> "isBinaryFile", newFileEntries |-> <<>>,
     binaryCount |-> 0]

\* the ids in use among the file entries: the workspace and the locals of the calls
\* in flight (ids are compared only among file entries)
fileIdsInUse ==
    idsOf(files) \cup UNION {idsOf(ingests[k].newFileEntries) : k \in 1..Len(ingests)}

\* onFilesSelected(resultFiles) (DropZone.tsx:94-96, 104-108): up to the first await
Drop(sel) ==
    /\ mounted
    /\ events < MaxEvents
    /\ events' = events + 1
    /\ isProcessing' = TRUE
    /\ ingests' = Append(ingests, IngestCall(sel))
    /\ UNCHANGED <<mounted, files, bundledCode, diagnostics, bundleType,
                   enableTranspilation, lsCode, lsFiles, builds, tcase, tres,
                   aiVars, previewVars, enableFormatting>>

\* a failed read whose handler has no finally block: the flag stays as it is
IngestFails_noFinally(k) ==
    /\ diagnostics' \in addDiagnostics(diagnostics, <<Diag("error", "readError", <<>>)>>)
    /\ ingests' = RemoveAt(ingests, k)
    /\ UNCHANGED <<files, isProcessing, urlVars>>

\* catch (err) { addDiagnostic('Error reading files from drop event.', 'error') }
\* finally { setIsProcessing(false) }
IngestFails(k) ==
    /\ diagnostics' \in addDiagnostics(diagnostics, <<Diag("error", "readError", <<>>)>>)
    /\ isProcessing' = FALSE
    /\ ingests' = RemoveAt(ingests, k)
    /\ UNCHANGED <<files, urlVars>>

\* the end of the call that adds the files and leaves the validator's diagnostics
\* of the last file for later
IngestEnds_filesFirst(k, entries, binaryCount, ds) ==
    LET added == IF Len(entries) > 0
                 THEN <<Diag("info", "added", Len(entries))>> ELSE <<>>
        skipped == IF binaryCount > 0
                   THEN <<Diag("warning", "skippedBinary", binaryCount)>> ELSE <<>>
    IN  /\ files' = files \o entries
        /\ IF Len(entries) > 0 THEN PreviewEffect(pathname) ELSE UNCHANGED urlVars
        /\ diagnostics' \in addDiagnostics(diagnostics, added \o skipped)
        /\ isProcessing' = FALSE
        /\ ingests' = RemoveAt(ingests, k)

\* the end of the call without the report of the skipped files
IngestEnds_noSkipReport(k, entries, binaryCount, ds) ==
    LET added == IF Len(entries) > 0
                 THEN <<Diag("info", "added", Len(entries))>> ELSE <<>>
    IN  /\ files' = files \o entries
        /\ IF Len(entries) > 0 THEN PreviewEffect(pathname) ELSE UNCHANGED urlVars
        /\ diagnostics' \in addDiagnostics(diagnostics, ds \o added)
        /\ isProcessing' = FALSE
        /\ ingests' = RemoveAt(ingests, k)

\* the statements after the for loop, through finally; ds are the diagnostics the
\* last iteration appended before the loop ended
IngestEnds(k, entries, binaryCount, ds) ==
    LET added == IF Len(entries) > 0
                 THEN <<Diag("info", "added", Len(entries))>> ELSE <<>>
        skipped == IF binaryCount > 0
                   THEN <<Diag("warning", "skippedBinary", binaryCount)>> ELSE <<>>
    IN  /\ files' = files \o entries
        /\ IF Len(entries) > 0 THEN PreviewEffect(pathname) ELSE UNCHANGED urlVars
        /\ diagnostics' \in addDiagnostics(diagnostics, ds \o added \o skipped)
        /\ isProcessing' = FALSE
        /\ ingests' = RemoveAt(ingests, k)

\* await isBinaryFile(file) settles
IngestBinaryStep(k) ==
    /\ k \in 1..Len(ingests)
    /\ ingests[k].at = "isBinaryFile"
    /\ LET c == ingests[k]
           file == c.sel[c.i]
       IN  IF file.read = "buffer" THEN IngestFails(k)
           ELSE IF isBinaryFile(file) THEN
                IF c.i = Len(c.sel)
                THEN IngestEnds(k, c.newFileEntries, c.binaryCount + 1, <<>>)
                ELSE /\ ingests' = [ingests EXCEPT ![k].i = c.i + 1,
                                                   ![k].binaryCount = c.binaryCount + 1]
                     /\ UNCHANGED <<files, diagnostics, isProcessing, urlVars>>
           ELSE /\ ingests' = [ingests EXCEPT ![k].at = "text"]
                /\ UNCHANGED <<files, diagnostics, isProcessing, urlVars>>
    /\ UNCHANGED <<mounted, bundledCode, bundleType, enableTranspilation, lsCode,
                   lsFiles, builds, events, tcase, tres, aiVars, pathname, enableFormatting>>

\* await file.text() settles: the validator, then newFileEntries.push
IngestTextStep(k) ==
    /\ k \in 1..Len(ingests)
    /\ ingests[k].at = "text"
    /\ LET c == ingests[k]
           file == c.sel[c.i]
           ds == validate(file.name, file.content)
       IN  IF file.read = "text" THEN IngestFails(k)
           ELSE \E id \in randomId(fileIdsInUse) :
                LET entries == Append(c.newFileEntries, FileEntry(id, file)) IN
                IF c.i = Len(c.sel)
                THEN IngestEnds(k, entries, c.binaryCount, ds)
                ELSE /\ diagnostics' \in addDiagnostics(diagnostics, ds)
                     /\ ingests' = [ingests EXCEPT ![k].i = c.i + 1,
                                                   ![k].at = "isBinaryFile",
                                                   ![k].newFileEntries = entries]
                     /\ UNCHANGED <<files, isProcessing, urlVars>>
    /\ UNCHANGED <<mounted, bundledCode, bundleType, enableTranspilation, lsCode,
                   lsFiles, builds, events, tcase, tres, aiVars, pathname, enableFormatting>>

(***************************************************************************)
(* handleBundle (part_000:1095-1141) and runEslint (part_000:1019-1032).   *)
(* The collaborators are outside the repository; what they return is the   *)
(* environment's choice:                                                   *)
(*   babel    "code" (res.code is the transformed text), "noCode"          *)
(*            (res.code is empty) or "throws" (the import or the transform *)
(*            fails);                                                      *)
(*   lint     "throws" (linter.verify fails) or the severities of the      *)
(*            messages it returns;                                         *)
(*   storage  "ok", "failCode" (the first setItem throws) or "failFiles"   *)
(*            (the second does).                                           *)
(***************************************************************************)
BabelOutcomes == {"code", "noCode", "throws"}
LintOutcomes == {"throws", <<>>, <<2, 1>>}
StorageOutcomes == {"ok", "failCode", "failFiles"}

isBundleScript(f) == hasSuffix(f.name, {"js", "ts", "jsx", "tsx", "mjs", "cjs"})

\* files.map(f => `// --- ${f.name} ---\n${f.content}\n`).join('\n')
concatSources(fs) ==
    Join([i \in 1..Len(fs) |->
            <<"// --- ">> \o fs[i].name \o <<" ---", "\n">> \o fs[i].content \o <<"\n">>],
         <<"\n">>)

\* the text of a JS build before transpilation (part_000:1103-1110): the script
\* files when there are some, every file otherwise
genericSource(fs) ==
    LET jsFiles == SelectSeq(fs, isBundleScript) IN
    IF Len(jsFiles) = 0 THEN concatSources(fs) ELSE concatSources(jsFiles)

\* finalCode.replace(/[\x00-\x08\x0B\x0C\x0E-\x1F\x7F-\x9F]/g, "")
sanitize(code) == SelectSeq(code, LAMBDA a : a \notin {"^@", "^A"})

\* the text Babel.transform returns for a text it accepts
transformed(code) == <<"\"use strict\";", "\n">> \o code

\* performStaticLint (eslintService.ts:5-38): [] when linter.verify throws
performStaticLint(lint) == IF lint = "throws" THEN <<>> ELSE lint

\* runEslint: the diagnostics it appends for a non-empty code
runEslint(code, lint) ==
    LET messages == performStaticLint(lint) IN
    IF code = <<>> THEN <<>>
    ELSE IF Len(messages) = 0 THEN <<Diag("info", "eslintClean", <<>>)>>
    ELSE [i \in 1..Len(messages) |->
            Diag(IF messages[i] = 2 THEN "error" ELSE "warning", "eslint", messages[i])]

BuildCall(snapshot, type, finalCode) ==
    [files |-> snapshot, bundleType |-> type, finalCode |-> finalCode]

\* from setBundledCode(finalCode) through finally, for a call whose try block got
\* there; ds are the diagnostics the call appended earlier in the same step
BuildCompletes(b, ds, lint, storage) ==
    /\ bundledCode' = b.finalCode
    /\ diagnostics' \in addDiagnostics(diagnostics,
            ds \o <<Diag("info", "bundled", b.bundleType)>>
               \o runEslint(b.finalCode, lint)
               \o (IF storage = "ok" THEN <<>>
                   ELSE <<Diag("error", "thrown", "setItem")>>))
    /\ lsCode' = IF storage = "failCode" THEN lsCode
                 ELSE [kind |-> "text", value |-> b.finalCode]
    /\ lsFiles' = IF storage = "ok" THEN [kind |-> "array", value |-> b.files]
                  ELSE lsFiles
    /\ isProcessing' = FALSE

\* catch (err) { addDiagnostic(`${err.message}`, 'error') } finally { ... }
BuildThrows(ds, what) ==
    /\ diagnostics' \in addDiagnostics(diagnostics, ds \o <<Diag("error", "thrown", what)>>)
    /\ isProcessing' = FALSE
    /\ UNCHANGED <<bundledCode, lsCode, lsFiles>>

\* the call from its start to its first await, or to its end when it awaits nothing
handleBundle(lint, storage) ==
    IF Len(files) = 0
    THEN UNCHANGED <<bundledCode, diagnostics, lsCode, lsFiles, isProcessing, builds>>
    ELSE IF bundleType = "HTML"
    THEN /\ BuildCompletes(BuildCall(files, bundleType, constructPreview(files)),
                           <<>>, lint, storage)
         /\ UNCHANGED builds
    ELSE LET jsFiles == SelectSeq(files, isBundleScript) IN
         IF Len(jsFiles) = 0
         THEN /\ BuildCompletes(BuildCall(files, bundleType, genericSource(files)),
                                <<Diag("warning", "noSources", <<>>)>>, lint, storage)
              /\ UNCHANGED builds
         ELSE IF enableTranspilation
         THEN /\ isProcessing' = TRUE
              /\ builds' = Append(builds,
                                  BuildCall(files, bundleType, genericSource(files)))
              /\ UNCHANGED <<bundledCode, diagnostics, lsCode, lsFiles>>
         ELSE /\ BuildCompletes(BuildCall(files, bundleType, genericSource(files)),
                                <<>>, lint, storage)
              /\ UNCHANGED builds

\* the Bundle Code button (part_000:1262-1278): rendered when the workspace has
\* files, disabled while isProcessing
ClickBundle(lint, storage) ==
    /\ mounted
    /\ events < MaxEvents
    /\ Len(files) > 0
    /\ ~isProcessing
    /\ events' = events + 1
    /\ handleBundle(lint, storage)
    /\ UNCHANGED <<mounted, files, bundleType, enableTranspilation, ingests, tcase, tres,
                   aiVars, previewVars, enableFormatting>>

\* await import('@babel/standalone') settles, and the call runs to its end
BabelStep(k, babel, lint, storage) ==
    /\ k \in 1..Len(builds)
    /\ LET b == builds[k] IN
       CASE babel = "throws" -> BuildThrows(<<>>, "Syntax Error in workspace code")
         [] babel = "noCode" -> BuildCompletes(b, <<>>, lint, storage)
         [] babel = "code" ->
                BuildCompletes([b EXCEPT !.finalCode = transformed(sanitize(b.finalCode))],
                               <<>>, lint, storage)
    /\ builds' = RemoveAt(builds, k)
    /\ UNCHANGED <<mounted, files, bundleType, enableTranspilation, ingests, events,
                   tcase, tres, aiVars, previewVars, enableFormatting>>

(***************************************************************************)
(* The other controls of the page.                                         *)
(***************************************************************************)
\* onClick={()=>setBundleType(...)} (part_000:1266-1267)
setBundleType(type) ==
    /\ mounted
    /\ events < MaxEvents
    /\ Len(files) > 0
    /\ type # bundleType
    /\ events' = events + 1
    /\ bundleType' = type
    /\ UNCHANGED <<mounted, files, bundledCode, diagnostics, isProcessing,
                   enableTranspilation, lsCode, lsFiles, ingests, builds, tcase, tres,
                   aiVars, previewVars, enableFormatting>>

\* onChange={e=>setEnableTranspilation(e.target.checked)} (part_000:1270)
setEnableTranspilation ==
    /\ mounted
    /\ events < MaxEvents
    /\ Len(files) > 0
    /\ events' = events + 1
    /\ enableTranspilation' = ~enableTranspilation
    /\ UNCHANGED <<mounted, files, bundledCode, diagnostics, isProcessing, bundleType,
                   lsCode, lsFiles, ingests, builds, tcase, tres,
                   aiVars, previewVars, enableFormatting>>

\* onClick={() => handleRemoveFile(file.id)} (part_000:1205-1207, 1252)
handleRemoveFile(id) ==
    /\ mounted
    /\ events < MaxEvents
    /\ id \in idsOf(files)
    /\ events' = events + 1
    /\ files' = SelectSeq(files, LAMBDA f : f.id # id)
    /\ PreviewEffect(pathname)
    /\ UNCHANGED <<mounted, bundledCode, diagnostics, isProcessing, bundleType,
                   enableTranspilation, lsCode, lsFiles, ingests, builds, tcase, tres,
                   aiVars, pathname, enableFormatting>>

\* onDismiss={id => setDiagnostics(prev => prev.filter(d => d.id !== id))} (part_000:1280)
onDismiss(id) ==
    /\ mounted
    /\ events < MaxEvents
    /\ events' = events + 1
    /\ diagnostics' = SelectSeq(diagnostics, LAMBDA d : d.id # id)
    /\ UNCHANGED <<mounted, files, bundledCode, isProcessing, bundleType,
                   enableTranspilation, lsCode, lsFiles, ingests, builds, tcase, tres,
                   aiVars, previewVars, enableFormatting>>

(***************************************************************************)
(* The AI handlers (part_000:1151-1203).  Each awaits one call of the      *)
(* Gemini service with the bundle as its argument; the call resolves with  *)
(* a result about that text or rejects (no API key, a failed request, a    *)
(* response that is not JSON).  A suspended call is a record of its kind   *)
(* and of the text it sent.  The buttons are part of the route             *)
(* "/ai-insights" and are disabled while their own call is under way.      *)
(***************************************************************************)
AiKinds == {"audit", "lint", "discover"}

\* what the service answers: it rejects, or it resolves with an empty list or with
\* a list of one entry (for the audit, with a report)
AiOutcomes == {"rejects", "empty", "one"}

sizeOf(outcome) == IF outcome = "one" THEN 1 ELSE 0

\* the report analyzeBundleWithGemini resolves with for a text
analysisOf(code) == <<"report on">> \o code

\* the issues lintBundleWithGemini resolves with: n issues about the text
issuesOf(code, n) ==
    [i \in 1..n |-> [severity |-> "warning", message |-> <<"issue">>, code |-> code]]

\* the components discoverComponentsWithGemini resolves with
componentsOf(code, n) == [i \in 1..n |-> [name |-> <<"Component">>, code |-> code]]

loadingOf(kind) ==
    IF kind = "audit" THEN isAiLoading
    ELSE IF kind = "lint" THEN isLintLoading ELSE isDiscovering

\* the three loading flags with the one of kind set to value
setLoading(kind, value) ==
    /\ isAiLoading' = IF kind = "audit" THEN value ELSE isAiLoading
    /\ isLintLoading' = IF kind = "lint" THEN value ELSE isLintLoading
    /\ isDiscovering' = IF kind = "discover" THEN value ELSE isDiscovering

\* handleAiAudit, handleAiLint, handleAiDiscover: from the click to the await
handleAi(kind) ==
    /\ mounted
    /\ events < MaxEvents
    /\ pathname = "/ai-insights"
    /\ ~loadingOf(kind)
    /\ events' = events + 1
    /\ IF bundledCode = <<>>
       THEN /\ diagnostics' \in addDiagnostics(diagnostics,
                                               <<Diag("warning", "bundleFirst", kind)>>)
            /\ UNCHANGED <<activeAiTab, isAiLoading, isLintLoading, isDiscovering,
                           aiCalls>>
       ELSE /\ activeAiTab' = (IF kind = "audit" THEN "analysis" ELSE kind)
            /\ setLoading(kind, TRUE)
            /\ aiCalls' = Append(aiCalls, [kind |-> kind, code |-> bundledCode])
            /\ UNCHANGED diagnostics
    /\ UNCHANGED <<mounted, files, bundledCode, isProcessing, bundleType,
                   enableTranspilation, lsCode, lsFiles, ingests, builds, tcase, tres,
                   aiAnalysis, lintIssues, discoveredComponents, previewVars,
                   enableFormatting>>

\* the awaited call settles, and the handler runs to its end
AiSettles(k, outcome) ==
    /\ k \in 1..Len(aiCalls)
    /\ LET c == aiCalls[k] IN
       /\ IF outcome = "rejects"
          THEN /\ diagnostics' \in addDiagnostics(diagnostics,
                                                  <<Diag("error", "aiFailed", c.kind)>>)
               /\ UNCHANGED <<aiAnalysis, lintIssues, discoveredComponents>>
          ELSE /\ aiAnalysis' = IF c.kind = "audit" THEN analysisOf(c.code)
                                ELSE aiAnalysis
               /\ lintIssues' = IF c.kind = "lint" THEN issuesOf(c.code, sizeOf(outcome))
                                ELSE lintIssues
               /\ discoveredComponents' =
                      IF c.kind = "discover" THEN componentsOf(c.code, sizeOf(outcome))
                      ELSE discoveredComponents
               /\ diagnostics' \in addDiagnostics(diagnostics,
                                                  <<Diag("info", "aiComplete", c.kind)>>)
       /\ setLoading(c.kind, FALSE)
    /\ aiCalls' = RemoveAt(aiCalls, k)
    /\ UNCHANGED <<mounted, files, bundledCode, isProcessing, bundleType,
                   enableTranspilation, lsCode, lsFiles, ingests, builds, events, tcase,
                   tres, activeAiTab, previewVars, enableFormatting>>

Next ==
    \/ Mount
    \/ \E sel \in Drops : Drop(sel)
    \/ \E k \in 1..Len(ingests) : IngestBinaryStep(k)
    \/ \E k \in 1..Len(ingests) : IngestTextStep(k)
    \/ \E lint \in LintOutcomes, storage \in StorageOutcomes : ClickBundle(lint, storage)
    \/ \E k \in 1..Len(builds), babel \in BabelOutcomes, lint \in LintOutcomes,
          storage \in StorageOutcomes : BabelStep(k, babel, lint, storage)
    \/ \E type \in {"JS", "HTML"} : setBundleType(type)
    \/ setEnableTranspilation
    \/ \E id \in idsOf(files) : handleRemoveFile(id)
    \/ \E id \in idsOf(diagnostics) : onDismiss(id)

Spec == Init /\ [][Next]_vars

\* The page when every awaited call settles: a read of a file and the import of
\* Babel return or reject, so a suspended call does not stay suspended for ever.
\* The events are those that start or end an ingestion or a build: drops of a
\* script, of a file whose text cannot be read and of a binary file followed by one
\* whose bytes cannot be read, and clicks on Bundle Code.
FairDrops == {<<fScript>>, <<fJsonBad, fNoText>>, <<fBinary, fNoBuffer>>}

NextFair ==
    \/ Mount
    \/ \E sel \in FairDrops : Drop(sel)
    \/ \E k \in 1..Len(ingests) : IngestBinaryStep(k)
    \/ \E k \in 1..Len(ingests) : IngestTextStep(k)
    \/ \E lint \in LintOutcomes, storage \in StorageOutcomes : ClickBundle(lint, storage)
    \/ \E k \in 1..Len(builds), babel \in BabelOutcomes, lint \in LintOutcomes,
          storage \in StorageOutcomes : BabelStep(k, babel, lint, storage)

SpecFair ==
    /\ Init
    /\ [][NextFair]_vars
    /\ WF_vars(\E k \in 1..Len(ingests) : IngestBinaryStep(k))
    /\ WF_vars(\E k \in 1..Len(ingests) : IngestTextStep(k))
    /\ WF_vars(\E k \in 1..Len(builds), babel \in BabelOutcomes, lint \in LintOutcomes,
                  storage \in StorageOutcomes : BabelStep(k, babel, lint, storage))

\* handleBundle run on an empty workspace.  The page renders the button only when
\* the workspace has files, so this is the handler called directly.
BundleOnEmpty(lint, storage) ==
    /\ mounted
    /\ events < MaxEvents
    /\ Len(files) = 0
    /\ events' = events + 1
    /\ handleBundle(lint, storage)
    /\ UNCHANGED <<mounted, files, bundleType, enableTranspilation, ingests, tcase, tres,
                   aiVars, previewVars, enableFormatting>>

NextHandler ==
    \/ Next
    \/ \E lint \in LintOutcomes, storage \in StorageOutcomes : BundleOnEmpty(lint, storage)

SpecHandler == Init /\ [][NextHandler]_vars

(***************************************************************************)
(* constructPreview and the text of a JS build as functions of a workspace: *)
(* the workspace is drawn at the start, the function is applied to it, and  *)
(* the page itself stays as constructed.                                    *)
(***************************************************************************)
MaxSkeleton == 3
MaxScript == 2
MaxContent == 3

SeqsUpTo(S, n) == UNION {[1..k -> S] : k \in 0..n}

Idle ==
    /\ mounted = FALSE
    /\ files = <<>>
    /\ bundledCode = <<>>
    /\ diagnostics = <<>>
    /\ isProcessing = FALSE
    /\ bundleType = "JS"
    /\ enableTranspilation = TRUE
    /\ lsCode = [kind |-> "absent"]
    /\ lsFiles = [kind |-> "absent"]
    /\ ingests = <<>>
    /\ builds = <<>>
    /\ events = 0
    /\ PageInit
    /\ pathname = "/editor"

WorkspaceFile(id, name, content) ==
    [id |-> id, name |-> name, size |-> Len(content), content |-> content]

SkeletonAtoms ==
    {"<!DOCTYPE html>", "<html>", "<head>", "</head>", "<body>", "</body>", "<title>", "<p>"}
ScriptAtoms == {"x", "</script>", "</SCRIPT>"}

MarkupFiles ==
    {<<>>} \cup {<<WorkspaceFile(1, <<"k", ".", "html">>, c)>> :
                    c \in SeqsUpTo(SkeletonAtoms, MaxSkeleton)}
StyleFiles == {<<>>, <<WorkspaceFile(2, <<"s", ".", "css">>, <<"x">>)>>}
ScriptFiles ==
    {<<>>} \cup {<<WorkspaceFile(3, <<"m", ".", "js">>, c)>> :
                    c \in SeqsUpTo(ScriptAtoms, MaxScript)}

PreviewCases(markups) ==
    {[files |-> m \o c \o j] : m \in markups, c \in StyleFiles, j \in ScriptFiles}

NoResult == [stage |-> 0, first |-> <<>>, second |-> <<>>]

InitPreview == Idle /\ tcase \in PreviewCases(MarkupFiles) /\ tres = NoResult

\* the workspace with text as the content of its markup file
feedBack(fs, text) ==
    LET markup == {i \in 1..Len(fs) : isPreviewMarkup(fs[i])} IN
    IF markup # {}
    THEN LET i == CHOOSE i \in markup : \A j \in markup : i <= j IN
         [fs EXCEPT ![i] = WorkspaceFile(fs[i].id, fs[i].name, text)]
    ELSE <<WorkspaceFile(1, <<"k", ".", "html">>, text)>> \o fs

Preview ==
    /\ tres.stage = 0
    /\ tres' = [tres EXCEPT !.stage = 1, !.first = constructPreview(tcase.files)]
    /\ UNCHANGED <<appVars, tcase>>

PreviewAgain ==
    /\ tres.stage = 1
    /\ tres' = [tres EXCEPT !.stage = 2,
                            !.second = constructPreview(feedBack(tcase.files, tres.first))]
    /\ UNCHANGED <<appVars, tcase>>

NextPreview == Preview \/ PreviewAgain

SpecPreview == InitPreview /\ [][NextPreview]_vars

ContentAtoms == {"*", "/", "x"}

BundleCases ==
    {[files |-> <<WorkspaceFile(1, <<"s", ".", "css">>, c)>> \o j] :
        c \in SeqsUpTo(ContentAtoms, MaxContent),
        j \in {<<>>, <<WorkspaceFile(2, <<"m", ".", "js">>, <<"x">>)>>}}

InitBundleText == Idle /\ tcase \in BundleCases /\ tres = NoResult

Concatenate ==
    /\ tres.stage = 0
    /\ tres' = [tres EXCEPT !.stage = 1, !.first = genericSource(tcase.files)]
    /\ UNCHANGED <<appVars, tcase>>

NextBundleText == Concatenate

SpecBundleText == InitBundleText /\ [][NextBundleText]_vars

(***************************************************************************)
(* The page with drops of one JSON file each, the content drawn from the   *)
(* atoms of the JSON texts.                                                *)
(***************************************************************************)
MaxJson == 2

JsonAtoms == {"{", "}", "[", "]", "1", "null", "\"\"", "\"k\":1", " "}

JsonContents ==
    {c \in SeqsUpTo(JsonAtoms, MaxJson) : ~isBlank(c)}
    \cup {<<"{", "\"k\":1", "}">>, <<"[", "1", "]">>, <<"{", " ", "}">>}

JsonDrops == {<<RawFile(<<"c", ".", "json">>, c, "ok")>> : c \in JsonContents}

InitJson == Idle /\ tcase = NoCase /\ tres = NoCase

NextJson ==
    \/ Mount
    \/ \E sel \in JsonDrops : Drop(sel)
    \/ \E k \in 1..Len(ingests) : IngestBinaryStep(k)
    \/ \E k \in 1..Len(ingests) : IngestTextStep(k)
    \/ \E id \in idsOf(diagnostics) : onDismiss(id)

SpecJson == InitJson /\ [][NextJson]_vars

(***************************************************************************)
(* The page with drops of up to MaxDrop files, each a binary file, a       *)
(* script, or a file that cannot be read, one drop after the other (Spec   *)
(* has the drops that overlap).                                            *)
(***************************************************************************)
MaxDrop == 2

BinaryDrops ==
    SeqsUpTo({fBinary, fScript, fNoBuffer, fNoText}, MaxDrop) \ {<<>>}

NextBinary ==
    \/ Mount
    \/ \E sel \in BinaryDrops : ingests = <<>> /\ Drop(sel)
    \/ \E k \in 1..Len(ingests) : IngestBinaryStep(k)
    \/ \E k \in 1..Len(ingests) : IngestTextStep(k)

SpecBinary == InitJson /\ [][NextBinary]_vars

(***************************************************************************)
(* isBinaryFile as a function of the bytes of a file: a run of printable    *)
(* bytes followed by a few bytes drawn from the values at the borders of    *)
(* the detector's ranges.  The run is short, or long enough to put the      *)
(* bytes that follow it at the end of the sample and just after it.         *)
(***************************************************************************)
MaxPad == 19
MaxTail == 2

ByteValues == {0, 6, 7, 13, 14, 31, 32}

PadLengths == (0..MaxPad) \cup ((SampleLimit - MaxTail)..SampleLimit)

DetectorCases ==
    {[pad |-> n, tail |-> t] : n \in PadLengths, t \in SeqsUpTo(ByteValues, MaxTail)}

\* the bytes of the file of a case
fileBytes(c) == [i \in 1..c.pad |-> 120] \o c.tail

InitDetector == Idle /\ tcase \in DetectorCases /\ tres = NoResult

Detect ==
    /\ tres.stage = 0
    /\ tres' = [tres EXCEPT !.stage = 1, !.first = isBinary(fileBytes(tcase))]
    /\ UNCHANGED <<appVars, tcase>>

NextDetector == Detect

SpecDetector == InitDetector /\ [][NextDetector]_vars

(***************************************************************************)
(* The drop zone (DropZone.tsx:65-101).  handleDrop walks                  *)
(* e.dataTransfer.items and awaits scanEntry for each item; the first       *)
(* await ends after the drop event's dispatch is over.  What items.length   *)
(* answers from then on is the platform's: "disabled" is HTML's answer      *)
(* (the list of a DataTransfer whose event is over has length 0, so the     *)
(* loop ends after the first item), "kept" that of a platform that keeps    *)
(* the list.  Every item is a file.  The call touches only its own locals   *)
(* until it calls onFilesSelected, so it is one step.                       *)
(***************************************************************************)
ItemListOutcomes == {"kept", "disabled"}

\* the files handleDrop has collected when its loop ends
resultFiles(items, list) ==
    IF list = "disabled" /\ Len(items) > 1 THEN SubSeq(items, 1, 1) ELSE items

handleDrop(items, list) ==
    /\ Len(resultFiles(items, list)) > 0
    /\ Drop(resultFiles(items, list))

NextDropZone ==
    \/ Mount
    \/ \E items \in Drops, list \in ItemListOutcomes : handleDrop(items, list)
    \/ \E k \in 1..Len(ingests) : IngestBinaryStep(k)
    \/ \E k \in 1..Len(ingests) : IngestTextStep(k)

SpecDropZone == Init /\ [][NextDropZone]_vars

(***************************************************************************)
(* The page opened at the route "/ai-insights": the AI handlers and        *)
(* builds.                                                                 *)
(***************************************************************************)
InitAi ==
    /\ StateInit
    /\ pathname = "/ai-insights"
    /\ tcase = NoCase
    /\ tres = NoCase

NextAi ==
    \/ Mount
    \/ \E kind \in AiKinds : handleAi(kind)
    \/ \E k \in 1..Len(aiCalls), outcome \in AiOutcomes : AiSettles(k, outcome)
    \/ \E lint \in LintOutcomes, storage \in StorageOutcomes : ClickBundle(lint, storage)
    \/ \E k \in 1..Len(builds), babel \in BabelOutcomes, lint \in LintOutcomes,
          storage \in StorageOutcomes : BabelStep(k, babel, lint, storage)

SpecAi == InitAi /\ [][NextAi]_vars

(***************************************************************************)
(* The page with its routes (part_000:1280-1297, 1480).  The page can be   *)
(* opened at any route; a click on a tab of the navigation bar changes     *)
(* location.pathname; drops and removals change the workspace.             *)
(***************************************************************************)
RouteNames == {"/editor", "/visualizer", "/ai-insights", "/playground", "/preview"}

\* <Link to={tab.path}>: a click on the tab of another route
navigate(path) ==
    /\ mounted
    /\ events < MaxEvents
    /\ path # pathname
    /\ events' = events + 1
    /\ pathname' = path
    /\ PreviewEffect(path)
    /\ UNCHANGED <<mounted, files, bundledCode, diagnostics, isProcessing, bundleType,
                   enableTranspilation, lsCode, lsFiles, ingests, builds, tcase, tres,
                   aiVars, enableFormatting>>

InitRoutes ==
    /\ StateInit
    /\ pathname \in RouteNames
    /\ tcase = NoCase
    /\ tres = NoCase

NextRoutes ==
    \/ Mount
    \/ \E path \in RouteNames : navigate(path)
    \/ \E sel \in {<<fScript>>, <<fBinary, fStyle>>, <<fBinary>>} : Drop(sel)
    \/ \E k \in 1..Len(ingests) : IngestBinaryStep(k)
    \/ \E k \in 1..Len(ingests) : IngestTextStep(k)
    \/ \E id \in idsOf(files) : handleRemoveFile(id)

SpecRoutes == InitRoutes /\ [][NextRoutes]_vars

(***************************************************************************)
(* constructPreview on workspaces with style files: a skeleton as in       *)
(* PreviewCases, and up to two style files whose contents have the         *)
(* character pairs "$&" and "$'" in them, as in                            *)
(* .price::before { content: '$'; }.                                       *)
(***************************************************************************)
StyleContents == {<<"x">>, <<"$&">>, <<"x", "$'">>}

StyleLists ==
    {<<>>}
    \cup {<<WorkspaceFile(2, <<"s", ".", "css">>, c)>> : c \in StyleContents}
    \cup {<<WorkspaceFile(2, <<"s", ".", "css">>, c),
            WorkspaceFile(3, <<"t", ".", "scss">>, d)>> : c, d \in StyleContents}

StyleCases(markups) == {[files |-> m \o c] : m \in markups, c \in StyleLists}

InitStyle == Idle /\ tcase \in StyleCases(MarkupFiles) /\ tres = NoResult

PreviewStyles ==
    /\ tres.stage = 0
    /\ tres' = [tres EXCEPT !.stage = 1, !.first = constructPreview(tcase.files)]
    /\ UNCHANGED <<appVars, tcase>>

NextStyle == PreviewStyles

SpecStyle == InitStyle /\ [][NextStyle]_vars

(***************************************************************************)
(* The three places that tell the kind of a file from its name:            *)
(* getFileTypeInfo (part_000:822-842), the filters of constructPreview     *)
(* (part_000:859-861) and the filter of handleBundle (part_000:1103), and  *)
(* the validator of handleFilesSelected (part_000:1047-1069), as functions *)
(* of a name made of the atoms below and of a short content.               *)
(***************************************************************************)
MaxName == 3

NameAtoms == {"a", ".", "js", "JS", "cjs", "mjs", "sass", "css", "json", "md", "html"}

FileNames == SeqsUpTo(NameAtoms, MaxName) \ {<<>>}

NameCases ==
    {[name |-> n, content |-> c] :
        n \in FileNames, c \in {<<>>, <<"x">>, <<"{", "}">>}}

InitNames == Idle /\ tcase \in NameCases /\ tres = NoResult

\* the list constructPreview puts a file of this name in
previewKind(name) ==
    LET f == [name |-> name] IN
    IF isPreviewMarkup(f) THEN "htmlFile"
    ELSE IF isPreviewStyle(f) THEN "cssFiles"
    ELSE IF isPreviewScript(f) THEN "jsFiles"
    ELSE "none"

Classify ==
    /\ tres.stage = 0
    /\ tres' = [tres EXCEPT
                  !.stage = 1,
                  !.first = getFileTypeInfo(tcase.name),
                  !.second = [validated |-> validate(tcase.name, tcase.content),
                              jsFiles |-> isBundleScript([name |-> tcase.name]),
                              preview |-> previewKind(tcase.name)]]
    /\ UNCHANGED <<appVars, tcase>>

NextNames == Classify

SpecNames == InitNames /\ [][NextNames]_vars

(***************************************************************************)
(* The log when Math.random may repeat a value it has given before         *)
(* (part_000:972): drops, their reads and dismissals, every id drawn       *)
(* either new or one already in use.  onDismiss is also called with an id  *)
(* that no entry carries, as by a click that was queued before the entry   *)
(* went away.                                                              *)
(***************************************************************************)
UnknownId == 0

InitIds == Idle /\ tcase = RepeatedDraws /\ tres = NoCase

NextIds ==
    \/ Mount
    \/ \E sel \in Drops : Drop(sel)
    \/ \E k \in 1..Len(ingests) : IngestBinaryStep(k)
    \/ \E k \in 1..Len(ingests) : IngestTextStep(k)
    \/ \E id \in idsOf(diagnostics) \cup {UnknownId} : onDismiss(id)

SpecIds == InitIds /\ [][NextIds]_vars

(***************************************************************************)
(* The earlier component App (part_000:89-787).  Its definitions carry the *)
(* prefix App_.  It keeps its files, bundle, diagnostics, flags and the    *)
(* two storage keys in the same state as BundleBlitz, and has a second     *)
(* build option, enableFormatting.  selectedLintIssue and viewMode are     *)
(* written by its handlers and read by none of them; they are left out.    *)
(***************************************************************************)
Digits == <<"0", "1", "2", "3", "4", "5", "6", "7", "8", "9">>

\* `${n}` for a number n >= 0: its decimal digits
RECURSIVE App_decimal(_)
App_decimal(n) ==
    IF n < 10 THEN <<Digits[n + 1]>> ELSE App_decimal(n \div 10) \o <<Digits[(n % 10) + 1]>>

\* f.content.replace(/\*\//g, '* /')
RECURSIVE App_escapeCommentEnd(_)
App_escapeCommentEnd(s) ==
    IF Len(s) < 2 THEN s
    ELSE IF s[1] = "*" /\ s[2] = "/"
    THEN <<"*", " ", "/">> \o App_escapeCommentEnd(SubSeq(s, 3, Len(s)))
    ELSE <<s[1]>> \o App_escapeCommentEnd(Tail(s))

App_isScript(f) == extOf(f.name) \in {<<"js">>, <<"ts">>, <<"jsx">>, <<"tsx">>}

\* the header of a bundle; "<now>" stands for new Date().toISOString()
App_header(fs) ==
    <<"/**", "\n", " * BundleBlitz", "\n", " * Generated: ", "<now>", "\n", " * Files: ">>
        \o App_decimal(Len(fs)) \o <<"\n", " */", "\n", "\n">>

\* the section of one file between its BEGIN and END lines
App_section(f) ==
    LET fileContent ==
            IF App_isScript(f) THEN f.content
            ELSE <<"/*", "\n", "[Non-Script File: ">> \o f.name \o <<"]", "\n", "\n">>
                    \o App_escapeCommentEnd(f.content) \o <<"\n", "*/">>
    IN  <<"// --- BEGIN ">> \o f.name \o <<" (">> \o App_decimal(f.size)
            \o <<" bytes) ---", "\n">> \o fileContent
            \o <<"\n", "// --- END ">> \o f.name \o <<" ---", "\n">>

\* header + files.map(...).join('\n')
App_source(fs) ==
    App_header(fs) \o Join([i \in 1..Len(fs) |-> App_section(fs[i])], <<"\n">>)

\* Prettier is outside the repository: "formatted" (prettierFormat resolves with
\* a text) or "throws" (an import or the format fails, or there is no format
\* function).  The text it resolves with is kept apart from the text it was given.
App_PrettierOutcomes == {"formatted", "throws"}

App_formatted(code) == <<"prettier: ">> \o code

\* the restore effect (part_000:118-139)
App_Mount ==
    /\ ~mounted
    /\ mounted' = TRUE
    /\ files' = IF truthy(lsFiles) /\ lsFiles.kind = "array" /\ Len(lsFiles.value) > 0
                THEN lsFiles.value ELSE files
    /\ bundledCode' = restoredCode(lsCode, bundledCode)
    /\ diagnostics' \in addDiagnostics(diagnostics,
            IF truthy(lsCode) THEN <<Diag("info", "restored", <<>>)>> ELSE <<>>)
    /\ UNCHANGED <<isProcessing, bundleType, enableTranspilation, lsCode, lsFiles,
                   ingests, builds, events, tcase, tres, aiVars, previewVars,
                   enableFormatting>>

\* the checks of handleFilesSelected on one file (part_000:164-175)
App_validate(name, text) ==
    LET ext == extOf(name) IN
    IF ext = <<"json">>
    THEN IF JSONparse(text).ok THEN <<>> ELSE <<Diag("warning", "invalidJson", name)>>
    ELSE IF ext \in {<<"js">>, <<"ts">>, <<"jsx">>, <<"tsx">>} /\ Includes(text, <<"eval(">>)
    THEN <<Diag("warning", "eval", name)>>
    ELSE <<>>

fEval == RawFile(<<"e", ".", "ts">>, <<"eval(", "x">>, "ok")

App_Drops == {<<fStyle, fJsonBad>>, <<fEval, fNoText>>}

App_IngestCall(sel) == [sel |-> sel, i |-> 1, newFileEntries |-> <<>>]

\* handleFilesSelected (part_000:155-194) up to its first await file.text()
App_handleFilesSelected(sel) ==
    /\ mounted
    /\ events < MaxEvents
    /\ events' = events + 1
    /\ isProcessing' = TRUE
    /\ ingests' = Append(ingests, App_IngestCall(sel))
    /\ UNCHANGED <<mounted, files, bundledCode, diagnostics, bundleType,
                   enableTranspilation, lsCode, lsFiles, builds, tcase, tres,
                   aiVars, previewVars, enableFormatting>>

\* await file.text() settles: the checks and the push, then the next await or the
\* end of the call; a rejection goes to catch and finally
App_TextStep(k) ==
    /\ k \in 1..Len(ingests)
    /\ LET c == ingests[k]
           file == c.sel[c.i]
       IN  IF file.read = "text"
           THEN /\ diagnostics' \in addDiagnostics(diagnostics,
                                        <<Diag("error", "readFailed", <<>>)>>)
                /\ isProcessing' = FALSE
                /\ ingests' = RemoveAt(ingests, k)
                /\ UNCHANGED files
           ELSE \E id \in randomId(fileIdsInUse) :
                LET entries == Append(c.newFileEntries, FileEntry(id, file))
                    ds == App_validate(file.name, file.content)
                IN  IF c.i = Len(c.sel)
                    THEN /\ files' = files \o entries
                         /\ diagnostics' \in addDiagnostics(diagnostics,
                                ds \o <<Diag("info", "loaded", <<>>)>>)
                         /\ isProcessing' = FALSE
                         /\ ingests' = RemoveAt(ingests, k)
                    ELSE /\ diagnostics' \in addDiagnostics(diagnostics, ds)
                         /\ ingests' = [ingests EXCEPT ![k].i = c.i + 1,
                                                       ![k].newFileEntries = entries]
                         /\ UNCHANGED <<files, isProcessing>>
    /\ UNCHANGED <<mounted, bundledCode, bundleType, enableTranspilation, lsCode,
                   lsFiles, builds, events, tcase, tres, aiVars, previewVars,
                   enableFormatting>>

(***************************************************************************)
(* handleBundle of App (part_000:196-320).  A call takes the files and the *)
(* two options of the render it was created in.  It awaits a timer, then   *)
(* the import of Babel when transpilation is on, then the imports of       *)
(* Prettier and its format when formatting is on; pc says which of the     *)
(* three it waits at, finalCode is its local of that name.                 *)
(***************************************************************************)
App_BuildCall(snapshot, transpile, format) ==
    [files |-> snapshot, transpile |-> transpile, format |-> format, pc |-> "timer",
     finalCode |-> <<>>]

\* the variables a step of a build leaves alone whatever it does
App_buildFrame ==
    UNCHANGED <<mounted, files, bundleType, enableTranspilation, ingests, events, tcase,
                tres, discoveredComponents, activeAiTab, isAiLoading, isLintLoading,
                isDiscovering, aiCalls, previewVars, enableFormatting>>

\* from setBundledCode(finalCode) through finally (part_000:296-319); ds are the
\* diagnostics the call appended earlier in the same step
App_BuildCompletes(k, b, code, ds, storage) ==
    /\ bundledCode' = code
    /\ diagnostics' \in addDiagnostics(diagnostics,
            ds \o <<Diag("info", "bundled", <<>>)>>
               \o (IF storage = "ok" THEN <<>>
                   ELSE <<Diag("warning", "autoSaveFailed", <<>>)>>))
    /\ aiAnalysis' = <<>>
    /\ lintIssues' = <<>>
    /\ lsCode' = IF storage = "failCode" THEN lsCode ELSE [kind |-> "text", value |-> code]
    /\ lsFiles' = IF storage = "ok" THEN [kind |-> "array", value |-> b.files] ELSE lsFiles
    /\ isProcessing' = FALSE
    /\ builds' = RemoveAt(builds, k)

\* a format stage that is left out when the transform stage gave a warning
App_formatStage_afterSuccessOnly(k, b, code, ds, storage) ==
    IF b.format /\ \A i \in 1..Len(ds) : ds[i].type # "warning"
    THEN /\ diagnostics' \in addDiagnostics(diagnostics,
                                ds \o <<Diag("info", "prettierStart", <<>>)>>)
         /\ builds' = [builds EXCEPT ![k] = [b EXCEPT !.pc = "prettier",
                                                      !.finalCode = code]]
         /\ UNCHANGED <<bundledCode, aiAnalysis, lintIssues, lsCode, lsFiles, isProcessing>>
    ELSE App_BuildCompletes(k, b, code, ds, storage)

\* if (enableFormatting) { addDiagnostic(...); try { await import('prettier') ...
\* (part_000:261-265), reached with the text and the diagnostics of the step so far
App_formatStage(k, b, code, ds, storage) ==
    IF b.format
    THEN /\ diagnostics' \in addDiagnostics(diagnostics,
                                ds \o <<Diag("info", "prettierStart", <<>>)>>)
         /\ builds' = [builds EXCEPT ![k] = [b EXCEPT !.pc = "prettier",
                                                      !.finalCode = code]]
         /\ UNCHANGED <<bundledCode, aiAnalysis, lintIssues, lsCode, lsFiles, isProcessing>>
    ELSE App_BuildCompletes(k, b, code, ds, storage)

\* the call from its start to its first await (part_000:196-205)
App_handleBundle ==
    IF Len(files) = 0
    THEN /\ diagnostics' \in addDiagnostics(diagnostics,
                                <<Diag("warning", "noFiles", <<>>)>>)
         /\ UNCHANGED <<isProcessing, builds>>
    ELSE /\ isProcessing' = TRUE
         /\ builds' = Append(builds,
                             App_BuildCall(files, enableTranspilation, enableFormatting))
         /\ UNCHANGED diagnostics

\* the Bundle Files button (part_000:519-526): rendered when the workspace has
\* files, disabled while isProcessing
App_ClickBundle ==
    /\ mounted
    /\ events < MaxEvents
    /\ Len(files) > 0
    /\ ~isProcessing
    /\ events' = events + 1
    /\ App_handleBundle
    /\ UNCHANGED <<mounted, files, bundledCode, bundleType, enableTranspilation, lsCode,
                   lsFiles, ingests, tcase, tres, aiVars, previewVars, enableFormatting>>

\* the timer ends: the text is put together and the transform stage starts when
\* it is enabled (part_000:207-231)
App_TimerStep(k, storage) ==
    /\ k \in 1..Len(builds)
    /\ builds[k].pc = "timer"
    /\ LET b == builds[k]
           code == App_source(b.files)
       IN  IF b.transpile
           THEN /\ diagnostics' \in addDiagnostics(diagnostics,
                                        <<Diag("info", "babelStart", <<>>)>>)
                /\ builds' = [builds EXCEPT ![k] = [b EXCEPT !.pc = "babel",
                                                             !.finalCode = code]]
                /\ UNCHANGED <<bundledCode, aiAnalysis, lintIssues, lsCode, lsFiles,
                               isProcessing>>
           ELSE App_formatStage(k, b, code, <<>>, storage)
    /\ App_buildFrame

\* await import('@babel/standalone') settles, the transform runs (part_000:232-258)
App_BabelStep(k, babel, storage) ==
    /\ k \in 1..Len(builds)
    /\ builds[k].pc = "babel"
    /\ LET b == builds[k] IN
       CASE babel = "code" ->
                App_formatStage(k, b, transformed(b.finalCode),
                                <<Diag("info", "transpiled", <<>>)>>, storage)
         [] babel = "noCode" -> App_formatStage(k, b, b.finalCode, <<>>, storage)
         [] babel = "throws" ->
                App_formatStage(k, b, b.finalCode,
                                <<Diag("warning", "transpileSkipped", <<>>)>>, storage)
    /\ App_buildFrame

\* the imports of Prettier and its format settle (part_000:266-294)
App_PrettierStep(k, prettier, storage) ==
    /\ k \in 1..Len(builds)
    /\ builds[k].pc = "prettier"
    /\ LET b == builds[k] IN
       IF prettier = "formatted"
       THEN App_BuildCompletes(k, b, App_formatted(b.finalCode),
                               <<Diag("info", "formatted", <<>>)>>, storage)
       ELSE App_BuildCompletes(k, b, b.finalCode,
                               <<Diag("warning", "formatFailed", <<>>)>>, storage)
    /\ App_buildFrame

\* onChange={(e) => setEnableTranspilation(e.target.checked)} (part_000:480-481);
\* the two toggles are rendered when the workspace has files
App_setEnableTranspilation ==
    /\ mounted
    /\ Len(files) > 0
    /\ enableTranspilation' = ~enableTranspilation
    /\ UNCHANGED <<mounted, files, bundledCode, diagnostics, isProcessing, bundleType,
                   lsCode, lsFiles, ingests, builds, events, tcase, tres, aiVars,
                   previewVars, enableFormatting>>

\* onChange={(e) => setEnableFormatting(e.target.checked)} (part_000:500-501)
App_setEnableFormatting ==
    /\ mounted
    /\ Len(files) > 0
    /\ enableFormatting' = ~enableFormatting
    /\ UNCHANGED <<mounted, files, bundledCode, diagnostics, isProcessing, bundleType,
                   enableTranspilation, lsCode, lsFiles, ingests, builds, events, tcase,
                   tres, aiVars, previewVars>>

\* a clear that leaves the log as it is and appends to it
App_handleClear_keepsLog ==
    /\ mounted
    /\ events < MaxEvents
    /\ Len(files) > 0
    /\ events' = events + 1
    /\ files' = <<>>
    /\ bundledCode' = <<>>
    /\ diagnostics' \in addDiagnostics(diagnostics, <<Diag("info", "cleared", <<>>)>>)
    /\ aiAnalysis' = <<>>
    /\ lintIssues' = <<>>
    /\ lsCode' = [kind |-> "absent", value |-> <<>>]
    /\ lsFiles' = [kind |-> "absent", value |-> <<>>]
    /\ UNCHANGED <<mounted, isProcessing, bundleType, enableTranspilation, ingests,
                   builds, tcase, tres, discoveredComponents, activeAiTab, isAiLoading,
                   isLintLoading, isDiscovering, aiCalls, previewVars, enableFormatting>>

\* handleClear (part_000:343-353); the Clear Workspace button is rendered when the
\* workspace has files (part_000:446, 527-533)
App_handleClear ==
    /\ mounted
    /\ events < MaxEvents
    /\ Len(files) > 0
    /\ events' = events + 1
    /\ files' = <<>>
    /\ bundledCode' = <<>>
    /\ diagnostics' \in addDiagnostics(<<>>, <<Diag("info", "cleared", <<>>)>>)
    /\ aiAnalysis' = <<>>
    /\ lintIssues' = <<>>
    /\ lsCode' = [kind |-> "absent", value |-> <<>>]
    /\ lsFiles' = [kind |-> "absent", value |-> <<>>]
    /\ UNCHANGED <<mounted, isProcessing, bundleType, enableTranspilation, ingests,
                   builds, tcase, tres, discoveredComponents, activeAiTab, isAiLoading,
                   isLintLoading, isDiscovering, aiCalls, previewVars, enableFormatting>>

\* the state of App and of localStorage when the page is opened (part_000:90-107)
App_Init ==
    /\ mounted = FALSE
    /\ files = <<>>
    /\ bundledCode = <<>>
    /\ diagnostics = <<>>
    /\ isProcessing = FALSE
    /\ bundleType = "JS"
    /\ enableTranspilation = FALSE
    /\ \E session \in StoredSessions : lsCode = session[1] /\ lsFiles = session[2]
    /\ ingests = <<>>
    /\ builds = <<>>
    /\ events = 0
    /\ PageInit
    /\ pathname = "/editor"
    /\ tcase = NoCase
    /\ tres = NoCase

App_Next ==
    \/ App_Mount
    \/ \E sel \in App_Drops : App_handleFilesSelected(sel)
    \/ \E k \in 1..Len(ingests) : App_TextStep(k)
    \/ App_ClickBundle
    \/ \E k \in 1..Len(builds), storage \in StorageOutcomes : App_TimerStep(k, storage)
    \/ \E k \in 1..Len(builds), babel \in BabelOutcomes, storage \in StorageOutcomes :
          App_BabelStep(k, babel, storage)
    \/ \E k \in 1..Len(builds), prettier \in App_PrettierOutcomes,
          storage \in StorageOutcomes : App_PrettierStep(k, prettier, storage)
    \/ App_setEnableTranspilation
    \/ App_setEnableFormatting
    \/ App_handleClear

SpecApp == App_Init /\ [][App_Next]_vars

(***************************************************************************)
(* Properties of the two functions.                                        *)
(***************************************************************************)
countOf(s, A) == Cardinality({i \in 1..Len(s) : s[i] \in A})
contains(s, A) == countOf(s, A) > 0

\* JavaScript's comments, read over the atoms of a bundle: "/" "/" and the atom
\* "// --- " open a line comment that a line break ends, "/" "*" opens a block
\* comment that "*" "/" ends.  TRUE when the text from atom i on, read in the given
\* mode, is comments and line breaks only and leaves no block comment open.
RECURSIVE commentsOnly(_, _, _)
commentsOnly(s, i, mode) ==
    IF i > Len(s) THEN mode # "block"
    ELSE IF mode = "line"
    THEN commentsOnly(s, i + 1, IF s[i] = "\n" THEN "code" ELSE "line")
    ELSE IF mode = "block"
    THEN IF s[i] = "*" /\ i < Len(s) /\ s[i + 1] = "/"
         THEN commentsOnly(s, i + 2, "code")
         ELSE commentsOnly(s, i + 1, "block")
    ELSE IF s[i] = "\n" THEN commentsOnly(s, i + 1, "code")
    ELSE IF s[i] = "// --- " THEN commentsOnly(s, i + 1, "line")
    ELSE IF s[i] = "/" /\ i < Len(s) /\ s[i + 1] = "/" THEN commentsOnly(s, i + 2, "line")
    ELSE IF s[i] = "/" /\ i < Len(s) /\ s[i + 1] = "*" THEN commentsOnly(s, i + 2, "block")
    ELSE FALSE

\* every file of the workspace is a non-script file whose content has "*/" in it
terminatorsOnly(fs) ==
    \A i \in 1..Len(fs) :
        ~isBundleScript(fs[i]) /\ Includes(fs[i].content, <<"*", "/">>)

\* C3: a non-script file whose content has the block-comment terminator in it
\* (anywhere, any number of times, overlapping as in "**//") is wrapped in the
\* bundle in a block comment that its content does not end: the bundle of a
\* workspace of such files reads as comments only, each block comment closed.
C3_TerminatorStaysInComment ==
    (tres.stage = 1 /\ terminatorsOnly(tcase.files)) => commentsOnly(tres.first, 1, "code")

DocTypeTags == {"<!DOCTYPE html>", "<!doctype html>"}
RootTags == {"<html>", "<HTML>", "<html lang=\"en\">"}
HeadTags == {"<head>", "<HEAD>"}
BodyTags == {"<body>", "<BODY>"}
TitleTags == {"<title>"}
StructuralTags == {DocTypeTags, HeadTags, BodyTags, TitleTags, {MetaCharset}, {MetaViewport}}

\* C4: for every workspace, skeleton markup files and the empty workspace included,
\* the document constructPreview returns has a doctype, a root element, a head, a
\* body, a charset meta entry, a viewport meta entry and a title.
C4_CompleteDocument ==
    tres.stage >= 1 =>
        \A tags \in StructuralTags \cup {RootTags} : contains(tres.first, tags)

\* C5: when the output of constructPreview is given back as the markup file of the
\* workspace, the second output has no more doctype, head, body, title, charset meta
\* or viewport meta elements than the first.
C5_NoMoreStructuralTags ==
    tres.stage = 2 =>
        \A tags \in StructuralTags : countOf(tres.second, tags) <= countOf(tres.first, tags)

\* a closing script tag in the letter cases of the script contents
ScriptEndTags == {"</script>", "</SCRIPT>", "</Script>"}

\* C6: in the preview of a workspace with script files, no closing script tag of a
\* script file's content, in any letter case, stands unescaped in the module script
\* block: after the opening tag of the block the only closing script tag is the
\* one constructPreview writes.
C6_ScriptRegionClosesOnce ==
    (tres.stage >= 1 /\ SelectSeq(tcase.files, isPreviewScript) # <<>>) =>
        LET doc == tres.first
            open == firstIdx(doc, {"<script type=\"module\">"})
        IN  /\ open > 0
            /\ countOf(SubSeq(doc, open, Len(doc)), ScriptEndTags) = 1

(***************************************************************************)
(* Properties of the page.                                                 *)
(***************************************************************************)
typesOf(log) == [i \in 1..Len(log) |-> log[i].type]
tagsOf(log) == [i \in 1..Len(log) |-> log[i].message[1]]
countType(log, type) == Cardinality({i \in 1..Len(log) : log[i].type = type})
\* log2 is log1 with n entries appended
appendedBy(log1, log2, n) ==
    /\ Len(log2) = Len(log1) + n
    /\ SubSeq(log2, 1, Len(log1)) = log1
\* the entries a step appended
newEntries(log1, log2) == SubSeq(log2, Len(log1) + 1, Len(log2))

\* C1: while a build is in progress (a handleBundle call is suspended at its await)
\* the build trigger stays disabled (isProcessing), and no two builds are in
\* progress at once.
C1_SingleFlightBuild ==
    /\ Len(builds) <= 1
    /\ Len(builds) > 0 => isProcessing

\* C2: when the Babel stage of a build fails, the build is not aborted: one warning
\* diagnostic is appended, and the bundle is produced from the text that entered the
\* failing stage.
C2_StageFailureKeepsBuild ==
    [][\A k \in 1..Len(builds) :
          \A lint \in LintOutcomes, storage \in StorageOutcomes :
             BabelStep(k, "throws", lint, storage) =>
                /\ bundledCode' = builds[k].finalCode
                /\ Len(diagnostics') > Len(diagnostics)
                /\ countType(newEntries(diagnostics, diagnostics'), "warning") = 1
                /\ countType(newEntries(diagnostics, diagnostics'), "error") = 0]_vars

\* exactly one of the two keys is present in localStorage
oneKeyOnly == (lsCode.kind = "absent") # (lsFiles.kind = "absent")

\* C7: when exactly one of the two persisted keys is present at start-up, the
\* restore effect sets neither the workspace file list nor the bundle from storage.
C7_PartialPresenceRestoresNothing ==
    [][(Mount /\ oneKeyOnly) => (files' = files /\ bundledCode' = bundledCode)]_vars

\* the first user event was a drop, its call has ended, and it ended in the catch
afterOneFailedDrop ==
    /\ events = 1
    /\ ingests = <<>>
    /\ \E i \in 1..Len(diagnostics) : diagnostics[i].message[1] = "readError"

\* C8: after a drop in which reading a file failed, no file of the drop is in the
\* workspace, and the log holds the failure report and no validator diagnostic of the
\* drop (here the drop is the only event since start-up, so the log holds the
\* failure report alone and the workspace is as start-up left it).
C8_FailedDropLeavesNoTrace ==
    afterOneFailedDrop =>
        /\ tagsOf(diagnostics) = <<"readError">>
        /\ files = restoredFiles(lsFiles, <<>>)

\* C9: a build on a workspace with zero files appends exactly one warning
\* diagnostic and changes nothing else: bundle, persisted keys, processing flag.
C9_EmptyBuildWarns ==
    [][\A lint \in LintOutcomes, storage \in StorageOutcomes :
          BundleOnEmpty(lint, storage) =>
             /\ appendedBy(diagnostics, diagnostics', 1)
             /\ typesOf(newEntries(diagnostics, diagnostics')) = <<"warning">>
             /\ UNCHANGED <<bundledCode, lsCode, lsFiles, isProcessing>>]_vars

\* a drop of one JSON file whose content parses to an empty object
isEmptyObjectDrop(sel) ==
    /\ Len(sel) = 1
    /\ extOf(sel[1].name) = <<"json">>
    /\ LET v == JSONparse(sel[1].content) IN v.ok /\ v.kind = "object" /\ v.size = 0

\* the step of call k that ends the ingestion of such a drop
endsEmptyObjectDrop(k) == isEmptyObjectDrop(ingests[k].sel) /\ IngestTextStep(k)

\* the workspace gains the file of the drop, with its content as dropped
addsTheFile(k) ==
    /\ Len(files') = Len(files) + 1
    /\ SubSeq(files', 1, Len(files)) = files
    /\ files'[Len(files')].name = ingests[k].sel[1].name
    /\ files'[Len(files')].content = ingests[k].sel[1].content

\* C10 as claimed: ingesting a drop of one JSON file that parses to an empty object
\* leaves the log with exactly one info diagnostic more than before, and adds the
\* file with its content unchanged.
C10_OneInfoMore ==
    [][\A k \in 1..Len(ingests) :
          endsEmptyObjectDrop(k) =>
             /\ countType(diagnostics', "info") = countType(diagnostics, "info") + 1
             /\ addsTheFile(k)]_vars

\* C10 as amended: it appends exactly two diagnostics, both info, the empty-object
\* note about the file followed by the report that one file was added, changes no
\* earlier entry, and adds the file with its content unchanged.
C10_NoteThenReport ==
    [][\A k \in 1..Len(ingests) :
          endsEmptyObjectDrop(k) =>
             /\ appendedBy(diagnostics, diagnostics', 2)
             /\ typesOf(newEntries(diagnostics, diagnostics')) = <<"info", "info">>
             /\ newEntries(diagnostics, diagnostics')[1].message
                    = <<"emptyObject", ingests[k].sel[1].name>>
             /\ newEntries(diagnostics, diagnostics')[2].message = <<"added", 1>>
             /\ addsTheFile(k)]_vars

\* the drop of a.json with content {} has been ingested
C10_Witness ==
    /\ ingests = <<>>
    /\ \E i \in 1..Len(files) :
          files[i].name = <<"a", ".", "json">> /\ files[i].content = <<"{", "}">>
    /\ \E i \in 1..Len(diagnostics) :
          diagnostics[i].message = <<"emptyObject", <<"a", ".", "json">>>>

\* a drop of one JSON file with non-blank content
isJsonDrop(sel) ==
    /\ Len(sel) = 1
    /\ extOf(sel[1].name) = <<"json">>
    /\ ~isBlank(sel[1].content)

\* the step of call k that ends the ingestion of such a drop
endsJsonDrop(k) == isJsonDrop(ingests[k].sel) /\ IngestTextStep(k)

\* C11: for a JSON file with non-blank content, ingestion appends exactly one error
\* diagnostic when the content does not parse as JSON and none when it does (null,
\* numbers and strings included); either way the file is added with its raw text;
\* the empty-object note is appended only for an object with no keys.
C11_ErrorIffUnparsable ==
    [][\A k \in 1..Len(ingests) :
          endsJsonDrop(k) =>
             LET v == JSONparse(ingests[k].sel[1].content)
                 new == newEntries(diagnostics, diagnostics')
             IN  /\ SubSeq(diagnostics', 1, Len(diagnostics)) = diagnostics
                 /\ countType(new, "error") = (IF v.ok THEN 0 ELSE 1)
                 /\ addsTheFile(k)
                 /\ (\E i \in 1..Len(new) : new[i].message[1] = "emptyObject")
                        => (v.ok /\ v.kind = "object" /\ v.size = 0)]_vars

\* call k takes its last step: the call is over after it
endsCall(k) ==
    /\ IngestBinaryStep(k) \/ IngestTextStep(k)
    /\ Len(ingests') < Len(ingests)

\* the read that call k waits for fails
readFails(k) ==
    LET c == ingests[k] IN
    \/ c.at = "isBinaryFile" /\ c.sel[c.i].read = "buffer"
    \/ c.at = "text" /\ c.sel[c.i].read = "text"

\* the files of a drop that the detector takes for binary
binariesOf(sel) == {i \in 1..Len(sel) : isBinary(arrayBuffer(sel[i].content))}

\* the aggregate warnings among the entries a step appended
skipReports(log1, log2) ==
    SelectSeq(newEntries(log1, log2), LAMBDA d : d.message[1] = "skippedBinary")

\* the aggregate warning is there, once and with the count of the skipped files,
\* exactly when at least one file was skipped
reportsSkipped(k) ==
    LET n == Cardinality(binariesOf(ingests[k].sel))
        reports == skipReports(diagnostics, diagnostics')
    IN  IF n = 0 THEN reports = <<>>
        ELSE /\ Len(reports) = 1
             /\ reports[1].type = "warning"
             /\ reports[1].message[2] = n

\* no file the step added to the workspace is one the detector takes for binary
addsNoBinary ==
    /\ Len(files') >= Len(files)
    /\ \A i \in (Len(files) + 1)..Len(files') : ~isBinary(arrayBuffer(files'[i].content))

\* C12 as claimed: for every drop, no file detected as binary is added to the
\* workspace, and the drop appends one aggregate warning with the count of the
\* skipped files when that count is at least 1, and none when it is 0.
C12_EveryDropReportsSkipped ==
    [][\A k \in 1..Len(ingests) :
          endsCall(k) =>
             /\ addsNoBinary
             /\ IF readFails(k)
                THEN (ingests[k].binaryCount >= 1
                         => Len(skipReports(diagnostics, diagnostics')) = 1)
                ELSE reportsSkipped(k)]_vars

\* C12 as amended: no file detected as binary is added to the workspace; a drop
\* whose files are all read appends one aggregate warning with the count of the
\* skipped files when that count is at least 1 and none when it is 0; a drop in
\* which a read fails appends no aggregate warning and adds no file.
C12_CompletedDropReportsSkipped ==
    [][\A k \in 1..Len(ingests) :
          endsCall(k) =>
             /\ addsNoBinary
             /\ IF readFails(k)
                THEN skipReports(diagnostics, diagnostics') = <<>> /\ files' = files
                ELSE reportsSkipped(k)]_vars

\* a drop of two binary files has ended: the log has the warning with the count 2
\* and the workspace no file
C12_Witness ==
    /\ ingests = <<>>
    /\ files = <<>>
    /\ \E i \in 1..Len(diagnostics) : diagnostics[i].message = <<"skippedBinary", 2>>

\* the bytes the detector looks at
sampleOf(bytes) == SubSeq(bytes, 1, IF Len(bytes) < SampleLimit THEN Len(bytes) ELSE SampleLimit)

hasZero(bytes) == \E i \in 1..Len(bytes) : bytes[i] = 0

\* C13 as claimed: isBinary is true of every byte sequence with a 0x00 byte in it.
C13_ZeroAnywhereIsBinary ==
    (tres.stage = 1 /\ hasZero(fileBytes(tcase))) => tres.first

\* C13 as amended: isBinary is true of every byte sequence with a 0x00 byte among
\* its first 8192 bytes.
C13_ZeroInSampleIsBinary ==
    (tres.stage = 1 /\ hasZero(sampleOf(fileBytes(tcase)))) => tres.first

\* the detector ran on a file whose only zero byte is the last byte of the sample
C13_Witness ==
    /\ tres.stage = 1
    /\ tcase.pad = SampleLimit - 1
    /\ tcase.tail = <<0>>
    /\ tres.first

\* the rule of reference: a zero byte in the sample, or more than a tenth of the
\* sample in 0x00..0x06 or 0x0E..0x1F
referenceRule(bytes) ==
    LET sample == sampleOf(bytes)
        control == {i \in 1..Len(sample) : sample[i] \in (0..6) \cup (14..31)}
    IN  hasZero(sample) \/ Cardinality(control) * 10 > Len(sample)

\* every byte is printable or a tab, a line feed or a carriage return
plainText(bytes) == \A i \in 1..Len(bytes) : bytes[i] >= 32 \/ bytes[i] \in {9, 10, 13}

\* C14: isBinary is the rule of reference on the first 8192 bytes; an empty file,
\* a sample with exactly a tenth of control bytes, and a text without control
\* characters other than the standard white space are text.
C14_MatchesReferenceRule ==
    tres.stage = 1 =>
        /\ tres.first = referenceRule(fileBytes(tcase))
        /\ fileBytes(tcase) = <<>> => ~tres.first
        /\ (tcase.pad = 9 /\ tcase.tail = <<6>>) => ~tres.first
        /\ plainText(fileBytes(tcase)) => ~tres.first

\* the detector ran on ten bytes of which one, 0x06, is a control byte, and on
\* that sample at exactly a tenth it answered text
C14_Witness ==
    /\ tres.stage = 1
    /\ tcase.pad = 9
    /\ tcase.tail = <<6>>
    /\ ~tres.first

\* call k reads the text of its current file and validates it
validatesInStep(k) == IngestTextStep(k) /\ ~readFails(k)

\* the step appends to the log, first of all, the diagnostics ds
appendsFirst(ds) ==
    LET new == newEntries(diagnostics, diagnostics') IN
    /\ Len(diagnostics') >= Len(diagnostics) + Len(ds)
    /\ SubSeq(diagnostics', 1, Len(diagnostics)) = diagnostics
    /\ \A i \in 1..Len(ds) : new[i].type = ds[i].type /\ new[i].message = ds[i].message

\* the step in which call k ends puts into the workspace the files the call has
\* validated: those of newFileEntries, and after them the file of this step
addsValidated(k) ==
    LET c == ingests[k] IN
    IF validatesInStep(k)
    THEN /\ Len(files') = Len(files) + Len(c.newFileEntries) + 1
         /\ SubSeq(files', 1, Len(files') - 1) = files \o c.newFileEntries
         /\ files'[Len(files')].name = c.sel[c.i].name
         /\ files'[Len(files')].content = c.sel[c.i].content
    ELSE files' = files \o c.newFileEntries

\* C15: the validator's diagnostics about a file are appended to the log before the
\* file is part of the workspace.  The step that validates a file appends its
\* diagnostics; a file enters the list of a call in the step that validates it and
\* in no other; the workspace grows only when a call ends, by the files of its list.
C15_DiagnosticsBeforeFile ==
    [][/\ \A k \in 1..Len(ingests) :
             validatesInStep(k) =>
                appendsFirst(validate(ingests[k].sel[ingests[k].i].name,
                                      ingests[k].sel[ingests[k].i].content))
       /\ \A k \in 1..Len(ingests) :
             (Len(ingests') = Len(ingests)
                 /\ ingests'[k].newFileEntries # ingests[k].newFileEntries)
                => validatesInStep(k)
       /\ (mounted /\ Len(files') > Len(files)) =>
             \E k \in 1..Len(ingests) : endsCall(k) /\ addsValidated(k)]_vars

\* the drop of a.json = {} and m.js has ended: both files are in the workspace, and
\* the log has the note about a.json before the report of the two files added
C15_Witness ==
    /\ ingests = <<>>
    /\ \E i, j \in 1..Len(files) :
          i < j /\ files[i].name = <<"a", ".", "json">> /\ files[j].name = <<"m", ".", "js">>
    /\ \E i, j \in 1..Len(diagnostics) :
          /\ i < j
          /\ diagnostics[i].message = <<"emptyObject", <<"a", ".", "json">>>>
          /\ diagnostics[j].message = <<"added", 2>>

\* the files of a drop that the detector does not take for binary, in the drop's order
nonBinaryOf(sel) == SelectSeq(sel, LAMBDA f : ~isBinary(arrayBuffer(f.content)))

\* the files the drop zone hands to handleFilesSelected are the files of the drop
deliversWhole ==
    \A items \in Drops, list \in ItemListOutcomes :
        handleDrop(items, list) => ingests'[Len(ingests')].sel = items

\* when the ingestion of a drop ends with every file read, the workspace is what it
\* was, followed by the non-binary files it was handed, in their order
keepsOrder ==
    \A k \in 1..Len(ingests) :
        (endsCall(k) /\ ~readFails(k)) =>
            LET want == nonBinaryOf(ingests[k].sel)
                got == SubSeq(files', Len(files) + 1, Len(files'))
            IN  /\ Len(files') = Len(files) + Len(want)
                /\ SubSeq(files', 1, Len(files)) = files
                /\ \A i \in 1..Len(want) :
                      got[i].name = want[i].name /\ got[i].content = want[i].content

\* C16: after any sequence of drops, overlapping ones included, the non-binary
\* files of each drop are in the workspace in the order of the drop, after the files
\* that were there, and none is lost: the drop zone hands every file of the drop to
\* the ingestion, and the ingestion appends them in order.
C16_DropOrderKept == [][deliversWhole /\ keepsOrder]_vars

\* the log after the step is the log before it with entries added at its end
appendsAtEnd ==
    /\ Len(diagnostics') >= Len(diagnostics)
    /\ SubSeq(diagnostics', 1, Len(diagnostics)) = diagnostics

\* the log after the step is the log before it without the entries of one id
dismissesById ==
    \E id \in idsOf(diagnostics) :
        diagnostics' = SelectSeq(diagnostics, LAMBDA d : d.id # id)

\* how many entries of the log have the severity and the message of d
timesIn(log, d) ==
    Cardinality({i \in 1..Len(log) : log[i].type = d.type /\ log[i].message = d.message})

\* C17: the log lists the diagnostics that were not dismissed in the order they were
\* appended.  Every step either adds entries at the end of the log and changes no
\* entry that was there, or takes the entries of one id out and keeps the order of
\* the others; a diagnostic the validator reports is added once more also when the
\* log has an entry of the same severity and message.
C17_LogKeepsAppendOrder ==
    [][/\ appendsAtEnd \/ dismissesById
       /\ \A k \in 1..Len(ingests) :
             validatesInStep(k) =>
                LET c == ingests[k]
                    ds == validate(c.sel[c.i].name, c.sel[c.i].content)
                IN  \A i \in 1..Len(ds) :
                        timesIn(diagnostics', ds[i]) = timesIn(diagnostics, ds[i]) + 1]_vars

\* two drops of a.json = {} have ended: the log has the note about it twice, the
\* report of the first drop between the two and that of the second drop last
C17_Witness ==
    /\ Len(diagnostics) = 4
    /\ diagnostics[1].message[1] = "emptyObject"
    /\ diagnostics[2].message[1] = "added"
    /\ diagnostics[3].type = diagnostics[1].type
    /\ diagnostics[3].message = diagnostics[1].message
    /\ diagnostics[4].message[1] = "added"

\* the dismissal of an id no entry has leaves the log as it is
dismissOfUnknown(id) == id \notin idsOf(diagnostics) => diagnostics' = diagnostics

\* the dismissal of an id of the log takes one entry out and leaves the others in
\* their order
dismissOfKnown(id) ==
    id \in idsOf(diagnostics) =>
        \E i \in 1..Len(diagnostics) :
            /\ diagnostics[i].id = id
            /\ diagnostics' = RemoveAt(diagnostics, i)

\* C18: dismiss(id) with an id that is not in the log leaves the log unchanged;
\* dismiss(id) with an id that is in the log removes exactly one entry and leaves
\* every other entry and their relative order unchanged.
C18_DismissRemovesOne ==
    [][\A id \in idsOf(diagnostics) \cup {UnknownId} :
          onDismiss(id) => dismissOfUnknown(id) /\ dismissOfKnown(id)]_vars

\* C19: in every reachable state the diagnostics of the log have pairwise distinct
\* ids.
C19_DistinctIds ==
    \A i, j \in 1..Len(diagnostics) : i # j => diagnostics[i].id # diagnostics[j].id

\* where the sections of a bundle begin: the places of its markers
markersOf(code) == {i \in 1..Len(code) : code[i] = "// --- "}

\* the bundle has one section for each file of fs, in the order of fs: as many
\* markers as files, the i-th of them followed by the name of the i-th file
sectionPerFile(code, fs) ==
    /\ Cardinality(markersOf(code)) = Len(fs)
    /\ \A i \in 1..Len(fs) :
          \E m \in markersOf(code) :
             /\ Cardinality({n \in markersOf(code) : n < m}) = i - 1
             /\ MatchAt(code, fs[i].name, m + 1)

\* C20: a build over a non-empty workspace with no transform stage enabled produces
\* a bundle that holds one marker-delimited section per workspace file, in the order
\* of the workspace, preceded by the header.
C20_SectionPerFileAfterHeader ==
    tres.stage = 1 =>
        /\ sectionPerFile(tres.first, tcase.files)
        /\ 1 \notin markersOf(tres.first)

\* the suffixes getFileTypeInfo has a case for
RecognizedSuffixes ==
    {<<"js">>, <<"jsx">>, <<"ts">>, <<"tsx">>, <<"mjs">>, <<"css">>, <<"scss">>, <<"less">>,
     <<"sass">>, <<"html">>, <<"htm">>, <<"json">>, <<"md">>, <<"txt">>, <<"csv">>}

\* the name has no '.' at all, or the part after its last '.' is no recognized suffix
noKnownSuffix(name) ==
    \/ LastDot(name) = 0
    \/ LowerText(SubSeq(name, LastDot(name) + 1, Len(name))) \notin RecognizedSuffixes

\* the diagnostics of the validator that come from its JSON and Markdown rules
ruleTags == {"jsonEmpty", "invalidJson", "emptyObject", "mdNoContent", "mdNoFormatting", "txtBlank"}

\* C25: a name with no '.' at all (such as js, json or md) and a name with an
\* unrecognized suffix is classified Unknown (the default case of getFileTypeInfo),
\* and the validator applies no JSON or Markdown rule to a file of such a name.
C25_NoSuffixIsUnknown ==
    (tres.stage = 1 /\ noKnownSuffix(tcase.name)) =>
        /\ tres.first.Icon = "FileGeneric"
        /\ \A i \in 1..Len(tres.second.validated) :
              tres.second.validated[i].message[1] \notin ruleTags

\* the kind the label of getFileTypeInfo stands for
kindOfLabel(label) ==
    IF label = <<"JavaScript">> THEN "Script"
    ELSE IF label = <<"Style">> THEN "Style"
    ELSE IF label = <<"HTML">> THEN "Markup"
    ELSE "Other"

\* C30: for every file name the classifier, the bundle synthesizer and the preview
\* synthesizer agree on whether the file is Script, Style or Markup.
C30_OneKindEverywhere ==
    tres.stage = 1 =>
        LET kind == kindOfLabel(tres.first.label) IN
        /\ (kind = "Script") = tres.second.jsFiles
        /\ (kind = "Script") = (tres.second.preview = "jsFiles")
        /\ (kind = "Style") = (tres.second.preview = "cssFiles")
        /\ (kind = "Markup") = (tres.second.preview = "htmlFile")

\* where the text block stands in the document
placesOf(doc, block) == {i \in 1..Len(doc) : MatchAt(doc, block, i)}

\* the n atoms from i on are the last child of a head: only line breaks stand between
\* them and the closing tag of the head
lastChildOfHead(doc, i, n) ==
    \E j \in (i + n)..Len(doc) :
        /\ doc[j] \in HeadEndMatch
        /\ \A k \in (i + n)..(j - 1) : doc[k] \in {"\n", "\n  "}

\* C22: for every workspace and every skeleton the preview document has one style
\* block, which holds the baseline reset and the content of every style file in the
\* order of the workspace, and that block is the last child of the head; the style
\* content is never dropped.
C22_StyleBlockEndsHead ==
    tres.stage = 1 =>
        LET doc == tres.first
            block == styleBlockOf(SelectSeq(tcase.files, isPreviewStyle))
        IN  /\ countOf(doc, {"<style>"}) = 1
            /\ Cardinality(placesOf(doc, block)) = 1
            /\ \A i \in placesOf(doc, block) : lastChildOfHead(doc, i, Len(block))

\* what the step leaves under the two keys: what was there, or the bundle in memory
\* and the files fs it was built from
bothOrNeither(fs) ==
    \/ lsCode' = lsCode /\ lsFiles' = lsFiles
    \/ /\ lsCode' = [kind |-> "text", value |-> bundledCode']
       /\ lsFiles' = [kind |-> "array", value |-> fs]

\* the step appended the report of a bundle and not the error of the catch block
reportsSuccess ==
    LET new == newEntries(diagnostics, diagnostics') IN
    /\ \E i \in 1..Len(new) : new[i].message[1] = "bundled"
    /\ \A i \in 1..Len(new) : new[i].message[1] # "thrown"

\* C28: the persisted bundle text and the persisted file list come from the same
\* build and match the bundle in memory: the step in which a build ends writes both
\* keys or neither, also when a storage write fails, and a build that replaced the
\* bundle is not reported as failed.
C28_PersistsBothOrNeither ==
    [][/\ \A lint \in LintOutcomes, storage \in StorageOutcomes :
             ClickBundle(lint, storage) =>
                /\ bothOrNeither(files)
                /\ (Len(builds') = Len(builds)) => reportsSuccess
       /\ \A k \in 1..Len(builds) :
             \A babel \in BabelOutcomes, lint \in LintOutcomes, storage \in StorageOutcomes :
                BabelStep(k, babel, lint, storage) =>
                   /\ bothOrNeither(builds[k].files)
                   /\ babel # "throws" => reportsSuccess]_vars

\* an ingestion or a build is in progress: a call is suspended at an await
inProgress == Len(ingests) + Len(builds) > 0

\* the step ends a call: one suspended call fewer after it
endsOperation == Len(ingests') + Len(builds') < Len(ingests) + Len(builds)

\* C29: every ingestion and every build that sets the processing flag resets it,
\* whether it succeeds, a stage fails or an exception is thrown, provided each
\* awaited call settles: a call in progress ends, the step that ends it leaves the
\* flag false, and the flag is never true with no call in progress.
C29_FlagResets ==
    /\ [](isProcessing => inProgress)
    /\ [][endsOperation => ~isProcessing']_vars
    /\ inProgress ~> ~inProgress

\* a drop whose read failed and a build whose Babel stage threw have both ended, and
\* the flag is false
C29_Witness ==
    /\ ~inProgress
    /\ ~isProcessing
    /\ \E i, j \in 1..Len(diagnostics) :
          /\ diagnostics[i].message[1] = "readError"
          /\ diagnostics[j].message[1] = "thrown"

\* C24: the object URLs of the preview are paired with their revocations: at most
\* one URL that was created is not revoked, it is the newest one (every URL created
\* before it has been revoked), and none is left while the route is not the preview.
C24_PreviewUrlsPaired ==
    /\ Cardinality(objectUrls) <= 1
    /\ objectUrls \subseteq {previewUrl} \ {NoUrl}
    /\ pathname # "/preview" => objectUrls = {}

\* a second preview URL replaced the first, and then the preview was left: no URL
\* is left
C24_Witness ==
    /\ mounted
    /\ previewUrl >= 2
    /\ pathname # "/preview"
    /\ objectUrls = {}

\* C27: whenever the list of lint issues is not empty, it was computed from the
\* bundle text of the moment: every issue is one of the text that bundledCode holds.
C27_IssuesOfCurrentBundle ==
    \A i \in 1..Len(lintIssues) : lintIssues[i].code = bundledCode

\* the step appends one error diagnostic and leaves the bundle, the workspace and
\* the diagnostics logged before as they were
oneErrorOnly ==
    /\ appendedBy(diagnostics, diagnostics', 1)
    /\ diagnostics'[Len(diagnostics')].type = "error"
    /\ bundledCode' = bundledCode
    /\ files' = files

\* the step reports a clean run of the static analysis
reportsClean ==
    \E i \in 1..Len(newEntries(diagnostics, diagnostics')) :
        newEntries(diagnostics, diagnostics')[i].message[1] = "eslintClean"

\* C23: when a collaborator call (AI audit, AI lint, component discovery) is
\* rejected, one error diagnostic is appended and the bundle text, the workspace
\* files and the diagnostics logged before are unchanged; a run of the static
\* analysis that throws is not reported as a clean result.
C23_FailureIsOneError ==
    [][/\ \A k \in 1..Len(aiCalls) : AiSettles(k, "rejects") => oneErrorOnly
       /\ \A storage \in StorageOutcomes :
             /\ ClickBundle("throws", storage) => ~reportsClean
             /\ \A k \in 1..Len(builds), babel \in BabelOutcomes :
                   BabelStep(k, babel, "throws", storage) => ~reportsClean]_vars

(***************************************************************************)
(* Properties of the earlier component App.                                *)
(***************************************************************************)
\* call k of builds is still suspended after the step, at another await
buildAdvances(k) == Len(builds') = Len(builds) /\ builds'[k] # builds[k]

\* call k of builds runs to its end in the step
buildEnds(k) == Len(builds') = Len(builds) - 1 /\ builds' = RemoveAt(builds, k)

stageRank(pc) == CASE pc = "timer" -> 0 [] pc = "babel" -> 1 [] pc = "prettier" -> 2

TransformTags == {"babelStart", "transpiled", "transpileSkipped"}
FormatTags == {"prettierStart", "formatted", "formatFailed"}

\* the texts a step of call b may hand on when it starts from the text prev
textsAfter(b, prev) ==
    {prev} \cup (IF b.transpile THEN {transformed(prev)} ELSE {})
           \cup (IF b.format THEN {App_formatted(prev)} ELSE {})

\* C21: within one build the transform stage is attempted before the format stage
\* and each at most once (a call only moves forward through timer, transform,
\* format, and a stage is announced exactly in the step that enters it); a disabled
\* stage is never attempted (the call never waits at it, none of its diagnostics
\* is appended, and the text is not the stage's result); the format stage, when
\* enabled, is entered whatever the transform stage did.
C21_StagesInOrder ==
    [][\A k \in 1..Len(builds) :
        (buildAdvances(k) \/ buildEnds(k)) =>
            LET b == builds[k]
                new == tagsOf(newEntries(diagnostics, diagnostics'))
                prev == IF b.pc = "timer" THEN App_source(b.files) ELSE b.finalCode
                text == IF buildEnds(k) THEN bundledCode' ELSE builds'[k].finalCode
                enters(pc) == buildAdvances(k) /\ builds'[k].pc = pc
            IN  /\ buildAdvances(k) => stageRank(builds'[k].pc) > stageRank(b.pc)
                /\ countOf(new, {"babelStart"}) = (IF enters("babel") THEN 1 ELSE 0)
                /\ countOf(new, {"prettierStart"}) = (IF enters("prettier") THEN 1 ELSE 0)
                /\ text \in textsAfter(b, prev)
                /\ ~b.transpile => b.pc # "babel" /\ ~enters("babel")
                                   /\ ~contains(new, TransformTags)
                /\ ~b.format => b.pc # "prettier" /\ ~enters("prettier")
                                /\ ~contains(new, FormatTags)
                /\ (b.format /\ b.pc = "babel") => enters("prettier")
                /\ (b.format /\ b.pc = "timer") =>
                        enters(IF b.transpile THEN "babel" ELSE "prettier")]_vars

\* a build waits at the format stage after its transform stage failed
C21_Witness ==
    \E k \in 1..Len(builds) :
        /\ builds[k].pc = "prettier"
        /\ builds[k].transpile
        /\ Len(diagnostics) >= 3
        /\ SubSeq(tagsOf(diagnostics), Len(diagnostics) - 2, Len(diagnostics))
               = <<"babelStart", "transpileSkipped", "prettierStart">>

\* the step of a click on Clear Workspace: a user event that leaves the note
\* 'Workspace cleared.' at the end of the log
clearStep ==
    /\ events' = events + 1
    /\ Len(diagnostics') > 0
    /\ diagnostics'[Len(diagnostics')].message[1] = "cleared"

\* C26: after a workspace clear the file list is empty, the bundle text is empty,
\* both persisted keys are removed, and the log holds no diagnostic created before
\* the clear: its only entry is the note the clear itself appends.
C26_ClearLeavesNothing ==
    [][clearStep =>
        /\ files' = <<>>
        /\ bundledCode' = <<>>
        /\ lsCode'.kind = "absent"
        /\ lsFiles'.kind = "absent"
        /\ tagsOf(diagnostics') = <<"cleared">>]_vars

\* a clear has run after an earlier event of the session
C26_Witness ==
    /\ mounted
    /\ events >= 2
    /\ files = <<>>
    /\ bundledCode = <<>>
    /\ lsCode.kind = "absent"
    /\ lsFiles.kind = "absent"
    /\ tagsOf(diagnostics) = <<"cleared">>

====
